---- MODULE Spec2Model ----
(***************************************************************************)
(* Model of the record codec of Tijdlijn-OBM (data_models/base.py:         *)
(* BaseModel.to_dict / BaseModel.from_dict), of the record types declared  *)
(* on top of it (data_models/timeline.py, data_models/mdto.py) and of the  *)
(* TimelineRepository that stores encoded timelines; further down, of the  *)
(* services built on them: Timeline (generate, summarize, normalization),  *)
(* CL_Mistral_Completions, DocumentProcessor and DocumentRepository.search.*)
(*                                                                         *)
(* Values.  Every Python value is a record tagged by "k"; each kind has    *)
(* its own payload field so that values of different kinds can be          *)
(* compared:                                                               *)
(*   None      [k |-> "null"]                                              *)
(*   str       [k |-> "str",  s |-> <<token, ...>>]                        *)
(*   int       [k |-> "int",  n |-> 7]                                     *)
(*   list      [k |-> "list", v |-> <<value, ...>>]                        *)
(*   dict      [k |-> "map",  kv |-> <<[key |-> "a", val |-> value], ..>>] *)
(*             (insertion ordered, keys unique); a key that is the int n   *)
(*             is written "#n", which no str key of the model is           *)
(*   datetime  [k |-> "dt", Y, m, d, H, M, S, tz]   tz = "naive", a zone   *)
(*             name (ZoneInfo) or a fixed offset "+01:00" (timezone)       *)
(*   dataclass [k |-> "rec", cls |-> "Timeline", f |-> [field |-> value]]  *)
(*   raised    [k |-> "err", type |-> "ValueError", field, raw]            *)
(*                                                                         *)
(* Text.  A str is a sequence of tokens: a one-character literal           *)
(* [t |-> "lit", c |-> "-"], a run of digits [t |-> "num", w |-> 2,        *)
(* n |-> 1] ("01") or a UTC offset [t |-> "off", h |-> 1] ("+01:00");      *)
(* the strptime directives of the formats used here each consume exactly   *)
(* one digit run or one offset, so matching is token by token.             *)
(* datetime values have second precision (no microseconds).                *)
(***************************************************************************)
EXTENDS Integers, Sequences, FiniteSets, TLC

\* ---------------------------------------------------------------- values

Null == [k |-> "null"]
Str(toks) == [k |-> "str", s |-> toks]
PyInt(n) == [k |-> "int", n |-> n]
List(v) == [k |-> "list", v |-> v]
Map(kv) == [k |-> "map", kv |-> kv]
KV(key, val) == [key |-> key, val |-> val]
\* the int n as the key of a dict entry
IntKey(n) == <<"#0", "#1", "#2", "#3", "#4", "#5">>[n + 1]
IntKeys == {IntKey(n) : n \in 0..5}
IntKV(n, val) == [key |-> IntKey(n), val |-> val]
Rec(cls, f) == [k |-> "rec", cls |-> cls, f |-> f]
DT(Y, m, d, H, M, S, tz) ==
    [k |-> "dt", Y |-> Y, m |-> m, d |-> d, H |-> H, M |-> M, S |-> S, tz |-> tz]
Err(type, field, raw) == [k |-> "err", type |-> type, field |-> field, raw |-> raw]

\* dataclasses.MISSING, the "not handled" result of the hooks
MISSING == [k |-> "MISSING"]

IsErr(v) == v.k = "err"

\* first raised error of a sequence of results (evaluation order = index order)
FirstErr(seq) ==
    LET bad == {i \in 1..Len(seq) : IsErr(seq[i])}
    IN  seq[CHOOSE i \in bad : \A j \in bad : i <= j]

HasErr(seq) == \E i \in 1..Len(seq) : IsErr(seq[i])

\* ------------------------------------------------------------------ text

Lit(c) == [t |-> "lit", c |-> c]
Num(w, n) == [t |-> "num", w |-> w, n |-> n]
Off(h) == [t |-> "off", h |-> h]

\* the name of a str value used as a mapping key or field name
Word(c) == Str(<<Lit(c)>>)

\* mapping helpers (dict): keys in insertion order, lookup, membership
Keys(m) == [i \in 1..Len(m.kv) |-> m.kv[i].key]
KeySet(m) == {m.kv[i].key : i \in 1..Len(m.kv)}
HasKey(m, key) == key \in KeySet(m)
Lookup(m, key) == m.kv[CHOOSE i \in 1..Len(m.kv) : m.kv[i].key = key].val

\* -------------------------------------------------------------- calendar

IsLeap(Y) == (Y % 4 = 0 /\ Y % 100 # 0) \/ Y % 400 = 0

DaysInMonth(Y, m) ==
    IF m = 2 THEN (IF IsLeap(Y) THEN 29 ELSE 28)
    ELSE IF m \in {4, 6, 9, 11} THEN 30 ELSE 31

\* fixed offsets produced by %z and by fromisoformat (datetime.timezone)
FixedTz(h) == <<"+00:00", "+01:00", "+02:00">>[h + 1]

\* utcoffset() of a wall-clock time in a zone, in hours.  Europe/Amsterdam
\* is CET (+1) in winter and CEST (+2) in summer; the dates of this model
\* stay out of March and October, where the switch happens.
UtcOffset(tz, m) ==
    CASE tz = "UTC" -> 0
      [] tz = "Europe/Amsterdam" -> (IF m \in 4..9 THEN 2 ELSE 1)
      [] tz = "+00:00" -> 0
      [] tz = "+01:00" -> 1
      [] tz = "+02:00" -> 2

\* the wall clock moved by h hours (-2..2), rolling over day, month, year
AddHours(dt, h) ==
    LET hh == dt.H + h IN
    IF hh < 0 THEN
        IF dt.d > 1 THEN [dt EXCEPT !.H = hh + 24, !.d = dt.d - 1]
        ELSE IF dt.m > 1
             THEN [dt EXCEPT !.H = hh + 24, !.m = dt.m - 1,
                             !.d = DaysInMonth(dt.Y, dt.m - 1)]
             ELSE [dt EXCEPT !.H = hh + 24, !.Y = dt.Y - 1, !.m = 12, !.d = 31]
    ELSE IF hh >= 24 THEN
        IF dt.d < DaysInMonth(dt.Y, dt.m)
        THEN [dt EXCEPT !.H = hh - 24, !.d = dt.d + 1]
        ELSE IF dt.m < 12
             THEN [dt EXCEPT !.H = hh - 24, !.m = dt.m + 1, !.d = 1]
             ELSE [dt EXCEPT !.H = hh - 24, !.Y = dt.Y + 1, !.m = 1, !.d = 1]
    ELSE [dt EXCEPT !.H = hh]

\* datetime.replace(tzinfo=...): the wall clock is kept
replace_tzinfo(dt, tz) == [dt EXCEPT !.tz = tz]

\* the same instant on the UTC wall clock (dt aware)
ToUtc(dt) == [AddHours(dt, 0 - UtcOffset(dt.tz, dt.m)) EXCEPT !.tz = "UTC"]

\* datetime.astimezone(ZoneInfo(zone)) of an aware datetime
astimezone(dt, zone) ==
    LET utc == ToUtc(dt)
    IN  [AddHours(utc, UtcOffset(zone, utc.m)) EXCEPT !.tz = zone]

\* ------------------------------------------- datetime <-> text (stdlib)

\* result of a parse that raised ValueError or TypeError
Fail == [k |-> "fail"]

\* strptime formats are sequences of directives and one-character literals
IsDirective(x) == x \in {"%d", "%m", "%Y", "%H", "%M", "%S", "%z"}

\* does one token match one element of a format (the directive's regex)
TokOK(x, tok) ==
    CASE x = "%d" -> tok.t = "num" /\ tok.w \in {1, 2} /\ tok.n \in 1..31
      [] x = "%m" -> tok.t = "num" /\ tok.w \in {1, 2} /\ tok.n \in 1..12
      [] x = "%Y" -> tok.t = "num" /\ tok.w = 4
      [] x = "%H" -> tok.t = "num" /\ tok.w \in {1, 2} /\ tok.n \in 0..23
      [] x \in {"%M", "%S"} -> tok.t = "num" /\ tok.w \in {1, 2} /\ tok.n \in 0..59
      [] x = "%z" -> tok.t = "off"
      [] OTHER -> tok.t = "lit" /\ tok.c = x

\* the number the directive x of fmt read, or dflt when fmt has no x
FieldOf(fmt, toks, x, dflt) ==
    IF \E i \in 1..Len(fmt) : fmt[i] = x
    THEN toks[CHOOSE i \in 1..Len(fmt) : fmt[i] = x].n
    ELSE dflt

\* datetime.strptime(value, fmt): a naive datetime, an aware one when fmt
\* has %z, or Fail (ValueError: no match or no such day; TypeError: value
\* is not a str).  Fields the format does not name default to
\* 1900-01-01 00:00:00.
strptime(value, fmt) ==
    IF value.k # "str" THEN Fail
    ELSE LET toks == value.s IN
      IF Len(toks) # Len(fmt) \/ \E i \in 1..Len(fmt) : ~TokOK(fmt[i], toks[i])
      THEN Fail
      ELSE LET Y == FieldOf(fmt, toks, "%Y", 1900)
               m == FieldOf(fmt, toks, "%m", 1)
               d == FieldOf(fmt, toks, "%d", 1)
               tz == IF \E i \in 1..Len(fmt) : fmt[i] = "%z"
                     THEN FixedTz(toks[CHOOSE i \in 1..Len(fmt) : fmt[i] = "%z"].h)
                     ELSE "naive"
           IN  IF d > DaysInMonth(Y, m) THEN Fail
               ELSE DT(Y, m, d, FieldOf(fmt, toks, "%H", 0),
                       FieldOf(fmt, toks, "%M", 0), FieldOf(fmt, toks, "%S", 0), tz)

IsoDate == <<"%Y", "-", "%m", "-", "%d">>
IsoTime == <<"%H", ":", "%M", ":", "%S">>

\* every digit run of an ISO-8601 text has its full width (2024-02-01)
IsoWidths(toks) ==
    \A i \in 1..Len(toks) :
        toks[i].t = "num" => toks[i].w = (IF i = 1 THEN 4 ELSE 2)

\* datetime.fromisoformat(value) (Python 3.11): YYYY-MM-DD, optionally
\* followed by one separator character and HH[:MM[:SS]], optionally
\* followed by a UTC offset.
fromisoformat(value) ==
    IF value.k # "str" THEN Fail
    ELSE LET toks == value.s
             n == Len(toks)
             zoned == n > 5 /\ toks[n].t = "off"
             body == IF zoned THEN SubSeq(toks, 1, n - 1) ELSE toks
             len == Len(body)
             sepOK == len > 5 /\ body[6].t = "lit"
             fmt == IsoDate
                    \o (IF len > 5 THEN <<body[6].c>> \o SubSeq(IsoTime, 1, len - 6)
                        ELSE <<>>)
                    \o (IF zoned THEN <<"%z">> ELSE <<>>)
         IN  IF len \notin {5, 7, 9, 11} \/ ~IsoWidths(toks) \/ (len > 5 /\ ~sepOK)
             THEN Fail
             ELSE strptime(value, fmt)

\* the text of one directive of strftime; %z of a naive datetime is empty
Rendered(dt, x) ==
    CASE x = "%d" -> <<Num(2, dt.d)>>
      [] x = "%m" -> <<Num(2, dt.m)>>
      [] x = "%Y" -> <<Num(4, dt.Y)>>
      [] x = "%H" -> <<Num(2, dt.H)>>
      [] x = "%M" -> <<Num(2, dt.M)>>
      [] x = "%S" -> <<Num(2, dt.S)>>
      [] x = "%z" -> (IF dt.tz = "naive" THEN <<>>
                      ELSE <<Off(UtcOffset(dt.tz, dt.m))>>)
      [] OTHER -> <<Lit(x)>>

RECURSIVE RenderFrom(_, _, _)
RenderFrom(dt, fmt, i) ==
    IF i > Len(fmt) THEN <<>>
    ELSE Rendered(dt, fmt[i]) \o RenderFrom(dt, fmt, i + 1)

\* datetime.strftime(fmt)
strftime(dt, fmt) == Str(RenderFrom(dt, fmt, 1))

\* datetime.isoformat(): YYYY-MM-DDTHH:MM:SS and +HH:MM when aware
isoformat(dt) == strftime(dt, IsoDate \o <<"T">> \o IsoTime \o <<"%z">>)

\* ------------------------------------------------------ declared types

\* the declared type of a field, as typing evaluates it
TStr == [t |-> "scalar"]
TInt == [t |-> "scalar"]
TAny == [t |-> "any"]
TDatetime == [t |-> "datetime"]
TRec(c) == [t |-> "rec", cls |-> c]
TOptional(a) == [t |-> "optional", arg |-> a]
TList(a) == [t |-> "list", arg |-> a]
TDict(v) == [t |-> "dict", val |-> v]
\* Union[...] with two or more alternatives that are not None
TUnion(args) == [t |-> "union", args |-> args]
\* Set[...]: get_origin is set
TSet(a) == [t |-> "set", arg |-> a]
\* an annotation left unevaluated (a str) by "from __future__ import
\* annotations"; decl is the type its text names
TAnn(decl) == [t |-> "ann", decl |-> decl]

\* dataclasses.Field: name, declared type, default (MISSING, a value, or
\* a factory: list, dict or a record class)
Required(name, type) == [name |-> name, type |-> type, dflt |-> [kind |-> "MISSING"]]
Default(name, type, v) ==
    [name |-> name, type |-> type, dflt |-> [kind |-> "value", v |-> v]]
Factory(name, type, make) ==
    [name |-> name, type |-> type, dflt |-> [kind |-> "factory", make |-> make]]

LabelUri == <<Default("label", TOptional(TStr), Null),
              Default("uri", TOptional(TStr), Null)>>

\* the record types of data_models/timeline.py and data_models/mdto.py,
\* fields in declaration order
ContentChunk ==
    <<Required("chunk_identifier", TStr), Required("content", TStr)>>

TimelineDocument ==
    <<Required("id", TStr), Required("title", TStr),
      Required("created_at", TDatetime),
      Default("publisher", TOptional(TStr), Null),
      Default("summary", TOptional(TStr), Null),
      Default("publisher_link", TOptional(TStr), Null),
      Factory("content_text", TList(TRec("ContentChunk")), "list"),
      Factory("informatieobject", TDict(TAny), "dict")>>

Timeline ==
    <<Required("identifier", TStr), Required("name", TStr),
      Factory("documents", TList(TRec("TimelineDocument")), "list"),
      Default("beschrijving", TOptional(TStr), Null),
      Default("gegenereerd_op", TOptional(TDatetime), Null)>>

Organisatie ==
    <<Default("naam", TOptional(TStr), Null),
      Factory("organisatieType", TRec("OrganisatieType"), "OrganisatieType"),
      Default("uri", TOptional(TStr), Null)>>

Relatie == <<Default("targetIdentificatie", TOptional(TStr), Null)>>

Bestand ==
    <<Default("weergaveURL", TOptional(TStr), Null),
      Default("documentURL", TOptional(TStr), Null),
      Default("bestandsformaat", TOptional(TDict(TStr)), Null)>>

TechnischeContext ==
    <<Default("configuratieSchema", TOptional(TStr), Null),
      Default("doctype", TOptional(TStr), Null)>>

Informatieobject ==
    <<Default("identificatie", TOptional(TStr), Null),
      Default("titel", TOptional(TStr), Null),
      Default("status", TOptional(TStr), Null),
      Factory("informatietype", TRec("Informatietype"), "Informatietype"),
      Factory("parlementairType", TRec("ParlementairType"), "ParlementairType"),
      Default("dossierNummer", TOptional(TStr), Null),
      Default("ondernummer", TOptional(TStr), Null),
      Default("vergaderjaar", TOptional(TStr), Null),
      Factory("taal", TRec("Taal"), "Taal"),
      Default("beschikbaarVanaf", TOptional(TStr), Null),
      Factory("organisatie", TRec("Organisatie"), "Organisatie"),
      Factory("relaties", TList(TRec("Relatie")), "list"),
      Factory("bestanden", TList(TRec("Bestand")), "list"),
      Factory("technischeContext", TRec("TechnischeContext"), "TechnischeContext")>>

MDTO == <<Factory("informatieobject", TRec("Informatieobject"), "Informatieobject")>>

\* the record types of data_models/scraper_models.py; page_document_ids
\* is declared Dict[int, List[str]]
SearchQuery ==
    <<Required("term", TStr), Required("document_types", TList(TStr))>>

RawDocument ==
    <<Required("publisher_link", TStr), Required("document_link", TStr),
      Required("metadata", TDict(TAny))>>

DocumentSearchResult ==
    <<Required("query", TRec("SearchQuery")),
      Required("documents", TList(TRec("RawDocument"))),
      Required("total_pages", TInt),
      Required("page_document_ids", TDict(TList(TStr)))>>

\* Two record types as a client of BaseModel declares them, in a module
\* that evaluates its annotations; Event carries its own date
\* configuration (see config), Speaker inherits BaseModel's.
Speaker ==
    <<Default("name", TOptional(TStr), Null),
      Default("when", TOptional(TDatetime), Null)>>

Event ==
    <<Required("when", TDatetime),
      Default("stamp", TOptional(TDatetime), Null),
      Default("label", TOptional(TStr), Null),
      Factory("chair", TRec("Speaker"), "Speaker"),
      Factory("speakers", TList(TRec("Speaker")), "list")>>

\* A record type of a client that overrides both hooks:
\*   _serialize_field:   "pinned" -> "p", "note" -> None, else MISSING
\*   _deserialize_field: "pinned" -> None, "seen" -> value, else MISSING
\* It declares no class attribute of its own.
Reading ==
    <<Required("source", TRec("Speaker")),
      Default("at", TUnion(<<TStr, TDatetime>>), Null),
      Default("tags", TSet(TStr), Null),
      Factory("pinned", TRec("Speaker"), "Speaker"),
      Default("seen", TOptional(TDatetime), Null),
      Default("note", TOptional(TStr), Null)>>

\* A record type of a client with mapping fields, in a module that
\* evaluates its annotations; it declares no class attribute of its own.
Panel ==
    <<Factory("seats", TDict(TRec("Speaker")), "dict"),
      Factory("days", TDict(TDatetime), "dict")>>

RepoClasses ==
    {"ContentChunk", "TimelineDocument", "Timeline", "Informatietype",
     "ParlementairType", "Taal", "OrganisatieType", "Organisatie", "Relatie",
     "Bestand", "TechnischeContext", "Informatieobject", "MDTO",
     "SearchQuery", "RawDocument", "DocumentSearchResult"}

Classes == RepoClasses \cup {"Event", "Speaker", "Reading", "Panel"}

\* a data_models/ that evaluates its annotations
Postponed_nowhere(c) == FALSE

\* every module of data_models/ starts with "from __future__ import
\* annotations", so dataclasses keeps the annotations of its classes as str
Postponed(c) == c \in RepoClasses

Declared(c) ==
    CASE c = "ContentChunk" -> ContentChunk
      [] c = "TimelineDocument" -> TimelineDocument
      [] c = "Timeline" -> Timeline
      [] c \in {"Informatietype", "ParlementairType", "Taal", "OrganisatieType"}
           -> LabelUri
      [] c = "Organisatie" -> Organisatie
      [] c = "Relatie" -> Relatie
      [] c = "Bestand" -> Bestand
      [] c = "TechnischeContext" -> TechnischeContext
      [] c = "Informatieobject" -> Informatieobject
      [] c = "MDTO" -> MDTO
      [] c = "Speaker" -> Speaker
      [] c = "Event" -> Event
      [] c = "Reading" -> Reading
      [] c = "Panel" -> Panel
      [] c = "SearchQuery" -> SearchQuery
      [] c = "RawDocument" -> RawDocument
      [] c = "DocumentSearchResult" -> DocumentSearchResult

\* dataclasses.fields(cls): f.type is the annotation as dataclasses kept it
\* Body at the value of e: a local variable of the code, bound once
Bound(e, Body(_)) == CHOOSE r \in {Body(v) : v \in {e}} : TRUE

fields(c) ==
    Bound(Declared(c), LAMBDA declared :
        [i \in 1..Len(declared) |->
            IF Postponed(c)
            THEN [declared[i] EXCEPT !.type = TAnn(declared[i].type)]
            ELSE declared[i]] \o <<>>)

FieldNames(c) == {Declared(c)[i].name : i \in 1..Len(Declared(c))}

FieldNamed(c, name) ==
    fields(c)[CHOOSE i \in 1..Len(Declared(c)) : Declared(c)[i].name = name]

\* the characters of a str, as iterating it yields them
Digits(w, n) ==
    CASE w = 1 -> <<n>>
      [] w = 2 -> <<n \div 10, n % 10>>
      [] OTHER -> <<n \div 1000, (n \div 100) % 10, (n \div 10) % 10, n % 10>>

CharsOfTok(tok) ==
    CASE tok.t = "lit" -> <<Str(<<tok>>)>>
      [] tok.t = "num" ->
           [i \in 1..tok.w |-> Str(<<Num(1, Digits(tok.w, tok.n)[i])>>)]
      [] OTHER -> <<Str(<<Lit("+")>>), Str(<<Num(1, 0)>>), Str(<<Num(1, tok.h)>>),
                    Str(<<Lit(":")>>), Str(<<Num(1, 0)>>), Str(<<Num(1, 0)>>)>>

RECURSIVE CharsFrom(_, _)
CharsFrom(toks, i) ==
    IF i > Len(toks) THEN <<>> ELSE CharsOfTok(toks[i]) \o CharsFrom(toks, i + 1)

\* "for v in value": the elements of a list, the keys of a dict, the
\* characters of a str; any other value is not iterable (TypeError)
Iterable(value) == value.k \in {"list", "map", "str"}

Iterate(value) ==
    CASE value.k = "list" -> value.v
      [] value.k = "map" -> [i \in 1..Len(value.kv) |-> Word(value.kv[i].key)]
      [] OTHER -> CharsFrom(value.s, 1)

\* Python's truth value
Truthy(v) ==
    CASE v.k = "null" -> FALSE
      [] v.k = "map" -> Len(v.kv) > 0
      [] v.k = "list" -> Len(v.v) > 0
      [] v.k = "str" -> Len(v.s) > 0
      [] v.k = "int" -> v.n # 0
      [] OTHER -> TRUE

\* str.strip(): the blanks at both ends removed
RECURSIVE StripLeft(_)
StripLeft(toks) ==
    IF toks # <<>> /\ toks[1] = Lit(" ") THEN StripLeft(Tail(toks)) ELSE toks
RECURSIVE StripRight(_)
StripRight(toks) ==
    IF toks # <<>> /\ toks[Len(toks)] = Lit(" ")
    THEN StripRight(SubSeq(toks, 1, Len(toks) - 1)) ELSE toks
strip(v) == Str(StripRight(StripLeft(v.s)))

\* SearchQuery.__post_init__: term = term.strip(), then
\* document_types = list(document_types or []); the other classes have none
__post_init__(x) ==
    IF x.cls # "SearchQuery" THEN x
    ELSE IF x.f.term.k # "str" THEN Err("AttributeError", "term", x.f.term)
    ELSE IF ~Truthy(x.f.document_types)
         THEN [x EXCEPT !.f.term = strip(x.f.term), !.f.document_types = List(<<>>)]
    ELSE IF ~Iterable(x.f.document_types)
         THEN Err("TypeError", "document_types", x.f.document_types)
    ELSE [x EXCEPT !.f.term = strip(x.f.term),
                   !.f.document_types = List(Iterate(x.f.document_types))]

\* cls(**kwargs), the constructor @dataclass generates: kwargs are the
\* fields in given (values in val); the others take their default or the
\* result of their factory; TypeError when a required field is not given
\* or a keyword names no field.  __post_init__ runs on the new instance.
RECURSIVE Construct(_, _, _)
Construct(c, given, val) ==
    Bound(<<Declared(c), given>>, LAMBDA arg :
    IF \/ \E i \in 1..Len(arg[1]) :
             arg[1][i].name \notin arg[2] /\ arg[1][i].dflt.kind = "MISSING"
       \/ arg[2] \ FieldNames(c) # {}
    THEN Err("TypeError", "", Null)
    ELSE Bound(Rec(c, [n \in FieldNames(c) |->
                   IF n \in arg[2] THEN val[n]
                   ELSE LET d == FieldNamed(c, n).dflt IN
                        CASE d.kind = "value" -> d.v
                          [] d.make = "list" -> List(<<>>)
                          [] d.make = "dict" -> Map(<<>>)
                          [] OTHER -> Construct(d.make, {}, <<>>)]),
               LAMBDA instance : __post_init__(instance)))

\* typ() of a record class
ZeroArg(c) == Construct(c, {}, <<>>)

\* ----------------------------------------------------------------- state

VARIABLES
    config,   \* the class attributes DATE_FORMAT_MAP, DATE_INPUT_FORMATS,
              \* OUTPUT_TZ_NAME, INPUT_NAIVE_TZ_NAME of BaseModel and of
              \* each class that sets its own
    store,    \* the OpenSearch index of timelines: identifier -> _source
    op,       \* the call made last: "to_dict", "from_dict", "upsert", ...
    cls,      \* the record class it was made on
    self,     \* to_dict, upsert: the instance; from_dict of a tree that
              \* to_dict just produced: the instance the caller still holds
    data,     \* from_dict: the mapping decoded; get: the identifier
    result,   \* what the call returned, or the error it raised
    calls,    \* per concurrent caller (thread): the call it is in, the
              \* field its loop has reached and what the loop has built
    run,      \* the service method being executed: where it is (pc), its
              \* arguments and its local variables
    log,      \* the calls the service methods have made to what lies
              \* outside them (repository, Mistral API, HTTP, file system),
              \* in the order they were made
    tmp       \* whether the file DocumentProcessor.tmp_file exists

vars == <<config, store, op, cls, self, data, result, calls, run, log, tmp>>

\* the variables of the codec and of its callers
codec == <<config, op, cls, self, data, result, calls>>

\* no service method is running
NoRun == [pc |-> "idle"]

\* cls.DATE_FORMAT_MAP etc.: a class that sets none inherits BaseModel's
ConfigOf(c) == IF c \in DOMAIN config THEN config[c] ELSE config["BaseModel"]

\* dict.get(name) on a per-field table; <<>> stands for "no entry"
Entry(table, name) == IF name \in DOMAIN table THEN table[name] ELSE <<>>

\* the threads that call into the codec, and a thread that is in no call
Callers == {1, 2}
Idle == [st |-> "idle", kind |-> "none", cls |-> "none", arg |-> Null, i |-> 0,
         acc |-> <<>>, result |-> Null]

\* ---------------------------------------------------------------- encode

\* self._serialize_field(name, value, typ): BaseModel's returns MISSING,
\* no class of the repository overrides it, Reading does
_serialize_field(owner, name, value, typ) ==
    CASE owner = "Reading" /\ name = "pinned" -> Word("p")
      [] owner = "Reading" /\ name = "note" -> Null
      [] OTHER -> MISSING

\* serialize_datetime stamping a naive value with the input zone
serialize_datetime_input_tz(owner, name, value) ==
    LET out == ConfigOf(owner).OUTPUT_TZ_NAME
        stamped == IF value.tz = "naive"
                   THEN replace_tzinfo(value, ConfigOf(owner).INPUT_NAIVE_TZ_NAME)
                   ELSE value
        local == astimezone(stamped, out)
        fmt == Entry(ConfigOf(owner).DATE_FORMAT_MAP, name)
    IN  IF fmt # <<>> THEN strftime(local, fmt) ELSE isoformat(local)

\* serialize_datetime rendering the value in the zone it came in
serialize_datetime_own_zone(owner, name, value) ==
    LET out == ConfigOf(owner).OUTPUT_TZ_NAME
        stamped == IF value.tz = "naive" THEN replace_tzinfo(value, out)
                   ELSE value
        fmt == Entry(ConfigOf(owner).DATE_FORMAT_MAP, name)
    IN  IF fmt # <<>> THEN strftime(stamped, fmt) ELSE isoformat(stamped)

\* the datetime branch of _serialize_value: a naive value is stamped with
\* the output zone, the value is converted to the output zone and rendered
\* with the field's DATE_FORMAT_MAP entry, or as ISO-8601 without one
serialize_datetime(owner, name, value) ==
    LET out == ConfigOf(owner).OUTPUT_TZ_NAME
        stamped == IF value.tz = "naive" THEN replace_tzinfo(value, out)
                   ELSE value
        local == astimezone(stamped, out)
        fmt == Entry(ConfigOf(owner).DATE_FORMAT_MAP, name)
    IN  IF fmt # <<>> THEN strftime(local, fmt) ELSE isoformat(local)

RECURSIVE to_dict(_)
RECURSIVE _serialize_value(_, _, _, _)

\* to_dict leaving out the fields that are None
to_dict_skip_none(x) ==
    LET fs == fields(x.cls)
        all == [i \in 1..Len(fs) |->
                   KV(fs[i].name,
                      _serialize_value(x.cls, fs[i].name, x.f[fs[i].name], fs[i].type))]
    IN  Map(SelectSeq(all, LAMBDA e : e.val # Null))

\* _serialize_value encoding the fields of a nested record itself, as it
\* does for a dataclass without to_dict: with the outer instance's tables
_serialize_value_cascading(owner, name, value, typ) ==
    LET hook == _serialize_field(owner, name, value, typ) IN
    IF hook # MISSING THEN hook
    ELSE CASE value.k = "null" -> Null
      [] value.k = "dt" -> serialize_datetime(owner, name, value)
      [] value.k = "rec" ->
           Map([i \in 1..Len(fields(value.cls)) |->
                   KV(fields(value.cls)[i].name,
                      _serialize_value(owner, fields(value.cls)[i].name,
                                       value.f[fields(value.cls)[i].name],
                                       fields(value.cls)[i].type))])
      [] value.k = "list" ->
           List([i \in 1..Len(value.v) |->
                    _serialize_value(owner, name, value.v[i], [t |-> "none"])])
      [] value.k = "map" ->
           Map([i \in 1..Len(value.kv) |->
                    KV(value.kv[i].key,
                       _serialize_value(owner, name, value.kv[i].val, [t |-> "none"]))])
      [] OTHER -> value

\* _serialize_value testing for None before it asks the hook
_serialize_value_null_first(owner, name, value, typ) ==
    IF value.k = "null" THEN Null
    ELSE LET hook == _serialize_field(owner, name, value, typ) IN
    IF hook # MISSING THEN hook
    ELSE CASE value.k = "dt" -> serialize_datetime(owner, name, value)
      [] value.k = "rec" -> to_dict(value)
      [] value.k = "list" ->
           List([i \in 1..Len(value.v) |->
                    _serialize_value(owner, name, value.v[i], [t |-> "none"])])
      [] value.k = "map" ->
           Map([i \in 1..Len(value.kv) |->
                    KV(value.kv[i].key,
                       _serialize_value(owner, name, value.kv[i].val, [t |-> "none"]))])
      [] OTHER -> value

\* BaseModel._serialize_value, called on an instance of class owner
_serialize_value(owner, name, value, typ) ==
    LET hook == _serialize_field(owner, name, value, typ) IN
    IF hook # MISSING THEN hook
    ELSE CASE value.k = "null" -> Null
      [] value.k = "dt" -> serialize_datetime(owner, name, value)
      [] value.k = "rec" -> to_dict(value)
      [] value.k = "list" ->
           List([i \in 1..Len(value.v) |->
                    _serialize_value(owner, name, value.v[i], [t |-> "none"])])
      [] value.k = "map" ->
           Map([i \in 1..Len(value.kv) |->
                    KV(value.kv[i].key,
                       _serialize_value(owner, name, value.kv[i].val, [t |-> "none"]))])
      [] OTHER -> value

\* BaseModel.to_dict
to_dict(x) ==
    LET fs == fields(x.cls) IN
    Map([i \in 1..Len(fs) |->
            KV(fs[i].name, _serialize_value(x.cls, fs[i].name, x.f[fs[i].name], fs[i].type))])

\* ---------------------------------------------------------------- decode

\* cls._deserialize_field(name, value, typ): BaseModel's returns MISSING,
\* no class of the repository overrides it, Reading does
_deserialize_field(owner, name, value, typ) ==
    CASE owner = "Reading" /\ name = "pinned" -> Null
      [] owner = "Reading" /\ name = "seen" -> value
      [] OTHER -> MISSING

\* attach_input_tz stamping with the output zone
attach_output_tz(owner, dt) ==
    IF dt.tz = "naive"
    THEN replace_tzinfo(dt, ConfigOf(owner).OUTPUT_TZ_NAME)
    ELSE dt

\* "if dt.tzinfo is None: dt = dt.replace(tzinfo=ZoneInfo(INPUT_NAIVE_TZ_NAME))"
attach_input_tz(owner, dt) ==
    IF dt.tz = "naive"
    THEN replace_tzinfo(dt, ConfigOf(owner).INPUT_NAIVE_TZ_NAME)
    ELSE dt

\* the formats a date field is tried against, in the order of the code:
\* DATE_INPUT_FORMATS[name], then DATE_FORMAT_MAP[name]; "iso" stands for
\* datetime.fromisoformat; then the two fixed formats
Fallbacks ==
    << <<"%d", "-", "%m", "-", "%Y", " ", "%H", ":", "%M", ":", "%S">>,
       <<"%Y", "-", "%m", "-", "%d", " ", "%H", ":", "%M", ":", "%S">> >>

\* parse_order trying DATE_INPUT_FORMATS[name] from its last format
parse_order_reversed(owner, name) ==
    LET fl == Entry(ConfigOf(owner).DATE_INPUT_FORMATS, name) IN
    [i \in 1..Len(fl) |-> fl[Len(fl) + 1 - i]]
    \o (IF Entry(ConfigOf(owner).DATE_FORMAT_MAP, name) # <<>>
        THEN <<Entry(ConfigOf(owner).DATE_FORMAT_MAP, name)>> ELSE <<>>)
    \o << <<"iso">> >>
    \o Fallbacks

parse_order(owner, name) ==
    Entry(ConfigOf(owner).DATE_INPUT_FORMATS, name)
    \o (IF Entry(ConfigOf(owner).DATE_FORMAT_MAP, name) # <<>>
        THEN <<Entry(ConfigOf(owner).DATE_FORMAT_MAP, name)>> ELSE <<>>)
    \o << <<"iso">> >>
    \o Fallbacks

\* one try block
try_parse(value, fmt) ==
    IF fmt = <<"iso">> THEN fromisoformat(value) ELSE strptime(value, fmt)

\* the datetime branch of _deserialize_value: the first rule that parses
\* value decides; ValueError naming the field and the value when none does
deserialize_datetime(owner, name, value) ==
    LET order == parse_order(owner, name)
        hits == {i \in 1..Len(order) : try_parse(value, order[i]) # Fail}
    IN  IF hits = {}
        THEN Err("ValueError", name, value)
        ELSE attach_input_tz(owner,
                 try_parse(value, order[CHOOSE i \in hits : \A j \in hits : i <= j]))

\* "name in data": "yes" or "no", or "TypeError" when data is not a
\* container.  A list holds name as an element; a str holds it as a
\* substring, and the strs of this model that hold a field name are that
\* name.
Contains(d, name) ==
    CASE d.k = "map" -> (IF HasKey(d, name) THEN "yes" ELSE "no")
      [] d.k = "str" -> (IF d = Word(name) THEN "yes" ELSE "no")
      [] d.k = "list" ->
           (IF \E i \in 1..Len(d.v) : d.v[i] = Word(name) THEN "yes" ELSE "no")
      [] OTHER -> "TypeError"

RECURSIVE from_dict(_, _)
RECURSIVE _deserialize_value(_, _, _, _)

\* _deserialize_value coalescing None before it asks the hook
_deserialize_value_null_first(owner, name, value, typ) ==
    IF value.k = "null" THEN
        IF typ.t = "rec"
        THEN (IF IsErr(ZeroArg(typ.cls)) THEN Null ELSE ZeroArg(typ.cls))
        ELSE Null
    ELSE LET hook == _deserialize_field(owner, name, value, typ) IN
    IF hook # MISSING THEN hook
    ELSE CASE typ.t = "rec" -> from_dict(typ.cls, value)
      [] typ.t = "optional" -> _deserialize_value(owner, name, value, typ.arg)
      [] typ.t = "datetime" -> deserialize_datetime(owner, name, value)
      [] typ.t = "union" /\ \E i \in 1..Len(typ.args) : typ.args[i].t = "datetime" ->
           deserialize_datetime(owner, name, value)
      [] typ.t = "list" ->
           IF ~Iterable(value) THEN Err("TypeError", name, value)
           ELSE LET items == [i \in 1..Len(Iterate(value)) |->
                                 _deserialize_value(owner, name, Iterate(value)[i], typ.arg)]
                IN  IF HasErr(items) THEN FirstErr(items) ELSE List(items)
      [] typ.t = "dict" ->
           IF value.k # "map" THEN Err("AttributeError", name, value)
           ELSE LET items == [i \in 1..Len(value.kv) |->
                                 _deserialize_value(owner, name, value.kv[i].val, typ.val)]
                IN  IF HasErr(items) THEN FirstErr(items)
                    ELSE Map([i \in 1..Len(items) |-> KV(value.kv[i].key, items[i])])
      [] OTHER -> value

\* _deserialize_value handing a dict back as it came
_deserialize_value_dict_unread(owner, name, value, typ) ==
    LET hook == _deserialize_field(owner, name, value, typ) IN
    IF hook # MISSING THEN hook
    ELSE IF value.k = "null" THEN
        IF typ.t = "rec"
        THEN (IF IsErr(ZeroArg(typ.cls)) THEN Null ELSE ZeroArg(typ.cls))
        ELSE Null
    ELSE CASE typ.t = "rec" -> from_dict(typ.cls, value)
      [] typ.t = "optional" -> _deserialize_value(owner, name, value, typ.arg)
      [] typ.t = "datetime" -> deserialize_datetime(owner, name, value)
      [] typ.t = "union" /\ \E i \in 1..Len(typ.args) : typ.args[i].t = "datetime" ->
           deserialize_datetime(owner, name, value)
      [] typ.t = "list" ->
           IF ~Iterable(value) THEN Err("TypeError", name, value)
           ELSE LET items == [i \in 1..Len(Iterate(value)) |->
                                 _deserialize_value(owner, name, Iterate(value)[i], typ.arg)]
                IN  IF HasErr(items) THEN FirstErr(items) ELSE List(items)
      [] OTHER -> value

\* BaseModel._deserialize_value, called on class owner
_deserialize_value(owner, name, value, typ) ==
    LET hook == _deserialize_field(owner, name, value, typ) IN
    IF hook # MISSING THEN hook
    ELSE IF value.k = "null" THEN
        \* coalesce None to an empty record where the type has one
        IF typ.t = "rec"
        THEN (IF IsErr(ZeroArg(typ.cls)) THEN Null ELSE ZeroArg(typ.cls))
        ELSE Null
    ELSE CASE typ.t = "rec" -> from_dict(typ.cls, value)
      [] typ.t = "optional" -> _deserialize_value(owner, name, value, typ.arg)
      [] typ.t = "datetime" -> deserialize_datetime(owner, name, value)
      \* "origin is Union and any(t is datetime for t in get_args(typ))"
      [] typ.t = "union" /\ \E i \in 1..Len(typ.args) : typ.args[i].t = "datetime" ->
           deserialize_datetime(owner, name, value)
      [] typ.t = "list" ->
           IF ~Iterable(value) THEN Err("TypeError", name, value)
           ELSE LET items == [i \in 1..Len(Iterate(value)) |->
                                 _deserialize_value(owner, name, Iterate(value)[i], typ.arg)]
                IN  IF HasErr(items) THEN FirstErr(items) ELSE List(items)
      [] typ.t = "dict" ->
           IF value.k # "map" THEN Err("AttributeError", name, value)
           ELSE LET items == [i \in 1..Len(value.kv) |->
                                 _deserialize_value(owner, name, value.kv[i].val, typ.val)]
                IN  IF HasErr(items) THEN FirstErr(items)
                    ELSE Map([i \in 1..Len(items) |-> KV(value.kv[i].key, items[i])])
      [] OTHER -> value

\* kwarg_names passing every key of data on to the constructor
kwarg_names_all_keys(c, d) ==
    {fields(c)[i].name : i \in {j \in 1..Len(fields(c)) :
        Contains(d, fields(c)[j].name) = "yes" \/ fields(c)[j].dflt.kind = "MISSING"}}
    \cup (IF d.k = "map" THEN KeySet(d) ELSE {})

\* the keys of kwargs in from_dict: the loop runs over fields(cls), and a
\* field gets a keyword when data has its name or when it has no default
kwarg_names(c, d) ==
    Bound(fields(c), LAMBDA fs :
        {fs[i].name : i \in {j \in 1..Len(fs) :
            Contains(d, fs[j].name) = "yes" \/ fs[j].dflt.kind = "MISSING"}})

\* BaseModel.from_dict
from_dict(c, d) ==
    Bound(<<fields(c), d>>, LAMBDA arg :
    Bound([i \in 1..Len(arg[1]) |->
              IF Contains(arg[2], arg[1][i].name) = "yes"
              THEN (IF arg[2].k = "map"
                    THEN _deserialize_value(c, arg[1][i].name,
                                            Lookup(arg[2], arg[1][i].name),
                                            arg[1][i].type)
                    \* data[name] on a str or a list
                    ELSE Err("TypeError", "", arg[2]))
              ELSE Null] \o <<>>,
          LAMBDA decoded :
    Bound(kwarg_names(c, arg[2]), LAMBDA given :
    LET fs == arg[1]
    IN  IF Len(fs) > 0 /\ Contains(arg[2], fs[1].name) = "TypeError"
        THEN Err("TypeError", "", arg[2])
        ELSE IF HasErr(decoded) THEN FirstErr(decoded)
        ELSE Construct(c, given,
                 [n \in given |->
                     IF n \in FieldNames(c)
                     THEN decoded[CHOOSE i \in 1..Len(fs) : fs[i].name = n]
                     ELSE Lookup(arg[2], n)]))))

\* ---------------------------------------------------------------- inputs

\* the longest list of nested records an instance or a tree holds
MaxDocs == 2
\* the longest DATE_INPUT_FORMATS entry
MaxFormats == 2

DMY == <<"%d", "-", "%m", "-", "%Y">>
MDY == <<"%m", "-", "%d", "-", "%Y">>
YMD == <<"%Y", "-", "%m", "-", "%d">>
FormatPool == {DMY, MDY, YMD}

\* lists of at most n elements of S
ListsOver(S, n) == UNION {[1..k -> S] : k \in 0..n}

\* lists of distinct formats
FormatLists ==
    {fl \in ListsOver(FormatPool, MaxFormats) :
        \A i, j \in 1..Len(fl) : i # j => fl[i] # fl[j]}

\* the class attributes of BaseModel, which the repository's classes and
\* Speaker inherit
BaseConfig ==
    [DATE_FORMAT_MAP |-> <<>>, DATE_INPUT_FORMATS |-> <<>>,
     OUTPUT_TZ_NAME |-> "Europe/Amsterdam",
     INPUT_NAIVE_TZ_NAME |-> "Europe/Amsterdam"]

\* the configurations Event may declare
EventConfigs ==
    {[DATE_FORMAT_MAP |-> fm, DATE_INPUT_FORMATS |-> [when |-> fl],
      OUTPUT_TZ_NAME |-> tz[1], INPUT_NAIVE_TZ_NAME |-> tz[2]] :
        fm \in {<<>>,
                [stamp |-> Fallbacks[1]],
                [when |-> MDY]},
        fl \in FormatLists,
        tz \in {<<"UTC", "Europe/Amsterdam">>, <<"Europe/Amsterdam", "UTC">>}}

a == Word("a")
b == Word("b")

\* date texts: 01-02-2024 reads as 1 February or as 2 January; 13-02-2024
\* and 02-13-2024 have one reading each; 31-02-2024 names no day
Dash(w1, n1, w2, n2, w3, n3) ==
    <<Num(w1, n1), Lit("-"), Num(w2, n2), Lit("-"), Num(w3, n3)>>
Clock(sep, off) ==
    <<Lit(sep), Num(2, 12), Lit(":"), Num(2, 0), Lit(":"), Num(2, 30)>> \o off

DateTexts ==
    {Str(Dash(2, 1, 2, 2, 4, 2024)), Str(Dash(2, 13, 2, 2, 4, 2024)),
     Str(Dash(2, 2, 2, 13, 4, 2024)), Str(Dash(1, 1, 1, 2, 4, 2024)),
     Str(Dash(2, 31, 2, 2, 4, 2024)), Str(Dash(4, 2024, 2, 2, 2, 1)),
     Str(Dash(4, 2024, 2, 2, 2, 1) \o Clock("T", <<>>)),
     Str(Dash(4, 2024, 2, 2, 2, 1) \o Clock("T", <<Off(2)>>)),
     Str(Dash(4, 2024, 2, 2, 2, 1) \o Clock(" ", <<>>)),
     Str(Dash(2, 1, 2, 2, 4, 2024) \o Clock(" ", <<>>))}

\* what a tree may hold where a date is declared
RawDates == DateTexts \cup {Word("x"), PyInt(5), Null}

IsoText == Str(Dash(4, 2024, 2, 2, 2, 1) \o Clock("T", <<Off(2)>>))

\* datetime values of instances
Dates ==
    {DT(2024, 2, 1, 0, 0, 0, "naive"),
     DT(2024, 1, 1, 0, 0, 0, "Europe/Amsterdam"),
     DT(2024, 7, 31, 23, 0, 30, "UTC"),
     DT(2024, 2, 1, 12, 0, 30, "+02:00")}

SpeakerOf(name, when) == Rec("Speaker", [name |-> name, when |-> when])
SpeakerPool == {ZeroArg("Speaker"), SpeakerOf(a, DT(2024, 2, 1, 12, 0, 30, "+02:00"))}

Events ==
    {Rec("Event", [when |-> w, stamp |-> st, label |-> Null, chair |-> ch,
                   speakers |-> List(sp)]) :
        w \in Dates, st \in {Null, DT(2024, 2, 1, 0, 0, 0, "naive")},
        ch \in SpeakerPool, sp \in ListsOver(SpeakerPool, MaxDocs)}

Chunk == Rec("ContentChunk", [chunk_identifier |-> a, content |-> b])

DocOf(id, created_at, chunks) ==
    Rec("TimelineDocument",
        [id |-> id, title |-> b, created_at |-> created_at, publisher |-> Null,
         summary |-> Null, publisher_link |-> Null, content_text |-> List(chunks),
         informatieobject |-> Map(<<>>)])
DocPool ==
    {DocOf(a, DT(2024, 1, 1, 0, 0, 0, "Europe/Amsterdam"), <<Chunk>>),
     DocOf(b, DT(2024, 2, 1, 0, 0, 0, "naive"), <<>>)}

Ids == {a, b}

TimelineOf(id, docs, op_) ==
    Rec("Timeline", [identifier |-> id, name |-> b, documents |-> List(docs),
                     beschrijving |-> Null, gegenereerd_op |-> op_])
Timelines ==
    {TimelineOf(id, docs, g) :
        id \in Ids,
        docs \in ListsOver(DocPool, MaxDocs),
        g \in {Null, DT(2024, 7, 31, 23, 0, 30, "UTC")}}

MDTOs ==
    {ZeroArg("MDTO"),
     Rec("MDTO", [informatieobject |->
        [ZeroArg("Informatieobject") EXCEPT
            !.f.titel = a,
            !.f.relaties = List(<<Rec("Relatie", [targetIdentificatie |-> b])>>)]])}

Readings ==
    {Rec("Reading", [source |-> src, at |-> Null, tags |-> Null, pinned |-> pv,
                     seen |-> sn, note |-> nt]) :
        src \in SpeakerPool, pv \in SpeakerPool \cup {Null},
        sn \in {Null, DT(2024, 7, 31, 23, 0, 30, "UTC")}, nt \in {Null, b}}

Panels ==
    {Rec("Panel", [seats |-> st, days |-> dy]) :
        st \in {Map(<<>>),
                Map(<<KV("x", SpeakerOf(a, DT(2024, 2, 1, 12, 0, 30, "+02:00"))),
                      KV("y", ZeroArg("Speaker"))>>)},
        dy \in {Map(<<>>), Map(<<KV("d", DT(2024, 7, 31, 23, 0, 30, "UTC"))>>)}}

Query == Rec("SearchQuery", [term |-> a, document_types |-> List(<<b>>)])

RawDoc ==
    Rec("RawDocument",
        [publisher_link |-> a, document_link |-> b,
         metadata |-> Map(<<KV("informatieobject", Map(<<>>))>>)])

\* results as DocumentRepository.search builds them: one entry of
\* page_document_ids per page, under the page number
SearchResults ==
    {Rec("DocumentSearchResult",
         [query |-> Query, documents |-> List(ds), total_pages |-> PyInt(n),
          page_document_ids |->
              Map([i \in 1..n |-> IntKV(i, List([j \in 1..Len(ds) |-> a]))])]) :
        ds \in ListsOver({RawDoc}, 1), n \in 0..MaxDocs}

\* the instances to_dict is called on
Instances ==
    Events \cup Timelines \cup MDTOs \cup DocPool \cup SpeakerPool \cup {Chunk}
    \cup Readings \cup Panels \cup SearchResults \cup {Query, RawDoc}

\* the trees from_dict is called on, per class
EventTrees ==
    {Map(<<KV("when", r)>>) : r \in RawDates}
    \cup {Map(<<KV("when", IsoText), KV("stamp", r)>>) : r \in RawDates}
    \cup {Map(<<KV("when", IsoText), KV("chair", v)>>) :
            v \in {Null, Map(<<KV("name", a)>>),
                   Map(<<KV("zz", PyInt(1)), KV("name", a)>>),
                   Map(<<KV("when", Str(Dash(2, 1, 2, 2, 4, 2024)))>>),
                   Map(<<KV("when", IsoText)>>),
                   a, PyInt(5), List(<<a>>)}}
    \cup {Map(<<KV("when", IsoText), KV("speakers", v)>>) :
            v \in {a, PyInt(5), Map(<<KV("name", a)>>), Map(<<KV("zz", a)>>)}}
    \cup {Map(<<KV("when", IsoText), KV("speakers", List(sp))>>) :
            sp \in ListsOver({Map(<<>>), Map(<<KV("name", a), KV("when", IsoText)>>)},
                             MaxDocs)}
    \cup {Map(<<>>), Map(<<KV("zz", PyInt(1)), KV("when", IsoText), KV("yy", Null)>>)}

DocTree(r) == Map(<<KV("id", a), KV("title", b), KV("created_at", r)>>)

TimelineTrees ==
    {Map(<<KV("identifier", a), KV("name", b), KV("gegenereerd_op", r)>>) :
        r \in {IsoText, Word("x"), Null}}
    \cup {Map(<<KV("identifier", a), KV("name", b), KV("documents", List(ds))>>) :
            ds \in ListsOver({DocTree(IsoText), DocTree(Word("x"))}, MaxDocs)}
    \cup {Map(<<KV("identifier", a), KV("name", b), KV("documents", v)>>) :
            v \in {a, PyInt(5), Map(<<KV("id", a)>>)}}
    \cup {Map(<<>>), Map(<<KV("zz", PyInt(1)), KV("identifier", a)>>)}

MDTOTrees ==
    {Map(<<>>), Map(<<KV("informatieobject", Null)>>),
     Map(<<KV("informatieobject",
              Map(<<KV("titel", a), KV("taal", Null), KV("zz", Null)>>))>>)}

ReadingTrees ==
    {Map(<<>>), Map(<<KV("source", Null)>>),
     Map(<<KV("source", Map(<<KV("name", a)>>)), KV("tags", List(<<a>>))>>)}
    \cup {Map(<<KV("source", Null), KV("at", r)>>) : r \in RawDates}
    \cup {Map(<<KV("source", Null), KV("pinned", pv), KV("seen", r)>>) :
            pv \in {Null, Map(<<KV("name", a)>>)},
            r \in {Null, Word("x"), IsoText}}

PanelTrees ==
    {Map(<<KV("seats", v)>>) :
        v \in {Null, a, PyInt(5), List(<<a>>),
               Map(<<KV("x", a)>>), Map(<<KV("x", PyInt(5))>>),
               Map(<<KV("x", Map(<<KV("name", a), KV("when", IsoText)>>)),
                     KV("y", Null), IntKV(1, Map(<<>>))>>)}}
    \cup {Map(<<KV("days", Map(<<KV("x", r), IntKV(2, Null)>>))>>) : r \in RawDates}

Blank == Str(<<Lit(" "), Lit("a"), Lit(" ")>>)

SearchQueryTrees ==
    {Map(<<>>),
     Map(<<KV("term", Blank), KV("document_types", Null)>>),
     Map(<<KV("term", a), KV("document_types", List(<<b>>))>>),
     Map(<<KV("term", a), KV("document_types", PyInt(5))>>),
     Map(<<KV("term", PyInt(5)), KV("document_types", List(<<>>))>>)}

\* values that are no mapping
NoMappings == {PyInt(5), a, List(<<a>>)}

TreesFor(c) ==
    CASE c = "Event" -> EventTrees \cup NoMappings
      [] c = "Timeline" -> TimelineTrees \cup NoMappings
      [] c = "MDTO" -> MDTOTrees
      [] c = "Reading" -> ReadingTrees
      [] c = "Panel" -> PanelTrees
      [] c = "SearchQuery" -> SearchQueryTrees
      [] c = "DocumentSearchResult" ->
           {Map(<<>>),
            Map(<<KV("query", Map(<<KV("term", a)>>)), KV("documents", List(<<>>)),
                  KV("total_pages", PyInt(1)),
                  KV("page_document_ids", Map(<<IntKV(1, List(<<a>>))>>))>>)}
      [] c = "TimelineDocument" -> {DocTree(r) : r \in {IsoText, Word("x"), Null}}
      [] c = "Speaker" -> {Map(<<KV("when", r)>>) : r \in RawDates}
      [] c = "Informatieobject" ->
           {Map(<<KV("organisatie", Null), KV("relaties", Null)>>)}
      [] OTHER -> {Map(<<>>)}

\* ----------------------------------------------------------- transitions

Init ==
    /\ config \in {[BaseModel |-> BaseConfig, Event |-> ec] : ec \in EventConfigs}
    /\ store = [i \in Ids |-> Null]
    /\ op = "none"
    /\ cls = "none"
    /\ self = Null
    /\ data = Null
    /\ result = Null
    /\ calls = [p \in Callers |-> Idle]
    /\ run = NoRun
    /\ log = <<>>
    /\ tmp = FALSE

\* a caller encodes an instance it holds
ToDict ==
    \E x \in Instances :
        /\ op = "none"
        /\ op' = "to_dict"
        /\ cls' = x.cls
        /\ self' = x
        /\ data' = Null
        /\ result' = to_dict(x)
        /\ UNCHANGED <<run, log, tmp, calls, config, store>>

\* a caller decodes a tree against a class: a tree it received, or the
\* tree to_dict just gave it for the instance it holds
FromDict ==
    \/ \E c \in Classes : \E d \in TreesFor(c) :
        /\ op = "none"
        /\ op' = "from_dict"
        /\ cls' = c
        /\ self' = Null
        /\ data' = d
        /\ result' = from_dict(c, d)
        /\ UNCHANGED <<run, log, tmp, calls, config, store>>
    \/ /\ op = "to_dict"
       /\ op' = "from_dict"
       /\ data' = result
       /\ result' = from_dict(cls, result)
       /\ UNCHANGED <<run, log, tmp, calls, config, store, cls, self>>

\* the call is over: the caller drops its result and may call again
Return ==
    /\ op # "none"
    /\ op' = "none"
    /\ cls' = "none"
    /\ self' = Null
    /\ data' = Null
    /\ result' = Null
    /\ UNCHANGED <<run, log, tmp, calls, config, store>>

Next == ToDict \/ FromDict \/ Return

Spec == Init /\ [][Next]_vars

\* --------------------------------------------------- TimelineRepository
\* store is the index es_timelines as the client passed to the repository
\* answers for it: the _source under each id, Null where it holds none.

\* _source values the client answers with that no upsert of this program
\* wrote: an empty source, a source without the required field name, a
\* source whose date is no date, a source that is no mapping
ForeignSources ==
    {Map(<<>>),
     Map(<<KV("identifier", a)>>),
     Map(<<KV("identifier", a), KV("name", b), KV("gegenereerd_op", Word("x"))>>),
     PyInt(5)}

_doc_to_source(timeline) == to_dict(timeline)

_source_to_doc(source) == from_dict("Timeline", source)

\* opensearch.index(index, id=timeline.identifier, body=_doc_to_source(timeline))
index(timeline) == [store EXCEPT ![timeline.f.identifier] = _doc_to_source(timeline)]

RepoInit ==
    /\ config = [BaseModel |-> BaseConfig]
    /\ store = [i \in Ids |-> Null]
    /\ op = "none"
    /\ cls = "none"
    /\ self = Null
    /\ data = Null
    /\ result = Null
    /\ calls = [p \in Callers |-> Idle]
    /\ run = NoRun
    /\ log = <<>>
    /\ tmp = FALSE

upsert ==
    \E timeline \in Timelines :
        /\ op = "none"
        /\ op' = "upsert"
        /\ self' = timeline
        /\ store' = index(timeline)
        /\ result' = Null
        /\ UNCHANGED <<run, log, tmp, calls, config, cls, data>>

\* update(timeline) calls upsert(timeline)
update ==
    \E timeline \in Timelines :
        /\ op = "none"
        /\ op' = "update"
        /\ self' = timeline
        /\ store' = index(timeline)
        /\ result' = Null
        /\ UNCHANGED <<run, log, tmp, calls, config, cls, data>>

\* get(identifier): opensearch.get raises for an id the index does not hold
\* and may raise for one it holds (transport error); both return None.  The
\* source is decoded outside the try block.
get ==
    \E identifier \in Ids : \E raises \in BOOLEAN :
        /\ op = "none"
        /\ op' = "get"
        /\ data' = identifier
        /\ result' = IF raises \/ store[identifier] = Null THEN Null
                     ELSE IF Truthy(store[identifier])
                          THEN _source_to_doc(store[identifier])
                          ELSE Null
        /\ UNCHANGED <<run, log, tmp, calls, config, store, cls, self>>

\* another writer of the index puts a source under an id
ForeignWrite ==
    \E i \in Ids : \E source \in ForeignSources :
        /\ op = "none"
        /\ store' = [store EXCEPT ![i] = source]
        /\ UNCHANGED <<run, log, tmp, calls, config, op, cls, self, data, result>>

RepoNext == upsert \/ update \/ get \/ ForeignWrite \/ Return

RepoSpec == RepoInit /\ [][RepoNext]_vars

\* ------------------------------------------------- concurrent callers
\* Threads call to_dict and from_dict on shared classes.  A call is the
\* loop over fields(cls) of base.py 41-44 and 50-61; another thread may run
\* between two iterations.  Each iteration reads the class attributes as
\* they are at that moment.

ConcInstances ==
    {DocOf(b, DT(2024, 2, 1, 0, 0, 0, "naive"), <<>>),
     Rec("Event", [when |-> DT(2024, 2, 1, 0, 0, 0, "naive"),
                   stamp |-> DT(2024, 2, 1, 0, 0, 0, "naive"), label |-> Null,
                   chair |-> SpeakerOf(a, DT(2024, 2, 1, 12, 0, 30, "+02:00")),
                   speakers |-> List(<<>>)])}

ConcTrees ==
    {<<"Event", Map(<<KV("when", Str(Dash(2, 1, 2, 2, 4, 2024))),
                      KV("stamp", Str(Dash(2, 1, 2, 2, 4, 2024) \o Clock(" ", <<>>)))>>)>>,
     <<"Event", Map(<<KV("when", IsoText), KV("stamp", Word("x"))>>)>>,
     <<"Timeline", Map(<<KV("identifier", a), KV("gegenereerd_op", IsoText)>>)>>,
     <<"Timeline", PyInt(5)>>}

ConcConfigs ==
    {[DATE_FORMAT_MAP |-> fm, DATE_INPUT_FORMATS |-> [when |-> <<MDY, DMY>>],
      OUTPUT_TZ_NAME |-> "UTC", INPUT_NAIVE_TZ_NAME |-> "Europe/Amsterdam"] :
        fm \in {<<>>, [stamp |-> Fallbacks[1]]}}

ConcInit ==
    /\ config \in {[BaseModel |-> BaseConfig, Event |-> ec] : ec \in ConcConfigs}
    /\ store = [i \in Ids |-> Null]
    /\ op = "none"
    /\ cls = "none"
    /\ self = Null
    /\ data = Null
    /\ result = Null
    /\ calls = [p \in Callers |-> Idle]
    /\ run = NoRun
    /\ log = <<>>
    /\ tmp = FALSE

\* thread p enters to_dict: out = {}
BeginToDict(p) ==
    \E x \in ConcInstances :
        /\ calls[p].st = "idle"
        /\ calls' = [calls EXCEPT ![p] =
               [st |-> "run", kind |-> "to_dict", cls |-> x.cls, arg |-> x, i |-> 1,
                acc |-> <<>>, result |-> Null]]
        /\ UNCHANGED <<run, log, tmp, config, store, op, cls, self, data, result>>

\* thread p enters from_dict: kwargs = {}
BeginFromDict(p) ==
    \E t \in ConcTrees :
        /\ calls[p].st = "idle"
        /\ calls' = [calls EXCEPT ![p] =
               [st |-> "run", kind |-> "from_dict", cls |-> t[1], arg |-> t[2], i |-> 1,
                acc |-> <<>>, result |-> Null]]
        /\ UNCHANGED <<run, log, tmp, config, store, op, cls, self, data, result>>

\* what one iteration of the loop leaves in the call of thread p: the next
\* entry of out or of kwargs, or the exception that ends the call
AfterField(call) ==
    LET fd == fields(call.cls)[call.i]
        next == [call EXCEPT !.i = call.i + 1]
        raised(e) == [call EXCEPT !.st = "done", !.result = e]
    IN  IF call.kind = "to_dict"
        THEN [next EXCEPT !.acc = Append(call.acc,
                 KV(fd.name, _serialize_value(call.cls, fd.name, call.arg.f[fd.name], fd.type)))]
        ELSE CASE Contains(call.arg, fd.name) = "TypeError" ->
                    raised(Err("TypeError", "", call.arg))
               [] Contains(call.arg, fd.name) = "yes" /\ call.arg.k # "map" ->
                    raised(Err("TypeError", "", call.arg))
               [] Contains(call.arg, fd.name) = "yes" ->
                    LET v == _deserialize_value(call.cls, fd.name,
                                                Lookup(call.arg, fd.name), fd.type)
                    IN  IF IsErr(v) THEN raised(v)
                        ELSE [next EXCEPT !.acc = Append(call.acc, KV(fd.name, v))]
               [] fd.dflt.kind # "MISSING" -> next
               [] OTHER -> [next EXCEPT !.acc = Append(call.acc, KV(fd.name, Null))]

\* Field keeping the zone it used in the class attributes of BaseModel
FieldWritingConfig(p) ==
    /\ calls[p].st = "run"
    /\ calls[p].i <= Len(fields(calls[p].cls))
    /\ calls' = [calls EXCEPT ![p] = AfterField(calls[p])]
    /\ config' = [config EXCEPT !["BaseModel"].OUTPUT_TZ_NAME =
                                  ConfigOf(calls[p].cls).OUTPUT_TZ_NAME]
    /\ UNCHANGED <<run, log, tmp, store, op, cls, self, data, result>>

\* one iteration of the loop of thread p
Field(p) ==
    /\ calls[p].st = "run"
    /\ calls[p].i <= Len(fields(calls[p].cls))
    /\ calls' = [calls EXCEPT ![p] = AfterField(calls[p])]
    /\ UNCHANGED <<run, log, tmp, config, store, op, cls, self, data, result>>

\* the loop of thread p is over: return out / return cls(**kwargs)
Finish(p) ==
    /\ calls[p].st = "run"
    /\ calls[p].i > Len(fields(calls[p].cls))
    /\ calls' = [calls EXCEPT ![p].st = "done",
                              ![p].result =
            IF calls[p].kind = "to_dict" THEN Map(calls[p].acc)
            ELSE Construct(calls[p].cls, KeySet(Map(calls[p].acc)),
                           [n \in KeySet(Map(calls[p].acc)) |->
                               Lookup(Map(calls[p].acc), n)])]
    /\ UNCHANGED <<run, log, tmp, config, store, op, cls, self, data, result>>

\* thread p drops the result
Forget(p) ==
    /\ calls[p].st = "done"
    /\ calls' = [calls EXCEPT ![p] = Idle]
    /\ UNCHANGED <<run, log, tmp, config, store, op, cls, self, data, result>>

ConcNext ==
    \E p \in Callers :
        BeginToDict(p) \/ BeginFromDict(p) \/ Field(p) \/ Finish(p) \/ Forget(p)

ConcSpec == ConcInit /\ [][ConcNext]_vars

\* ---------------------------------------------------------------- claims

\* Python's ==: aware datetimes are equal when they are the same instant,
\* a naive one never equals an aware one; dicts compare without order;
\* dataclass instances compare field by field within one class
RECURSIVE PyEq(_, _)
PyEq(x, y) ==
    IF x.k # y.k THEN FALSE
    ELSE CASE x.k = "dt" ->
                IF x.tz = "naive" \/ y.tz = "naive" THEN x = y
                ELSE ToUtc(x) = ToUtc(y)
      [] x.k = "list" ->
                /\ Len(x.v) = Len(y.v)
                /\ \A i \in 1..Len(x.v) : PyEq(x.v[i], y.v[i])
      [] x.k = "map" ->
                /\ KeySet(x) = KeySet(y)
                /\ \A key \in KeySet(x) : PyEq(Lookup(x, key), Lookup(y, key))
      [] x.k = "rec" ->
                /\ x.cls = y.cls
                /\ \A n \in FieldNames(x.cls) : PyEq(x.f[n], y.f[n])
      [] OTHER -> x = y

\* the field is declared datetime or Optional[datetime] in the source
IsDateType(type) ==
    type.t = "datetime" \/ (type.t = "optional" /\ type.arg.t = "datetime")

\* an output format that keeps the seconds
SecondPrecision(fmt) == \E i \in 1..Len(fmt) : fmt[i] = "%S"

\* every date field of class c is written as ISO-8601 or to the second
Lossless(c) ==
    \A i \in 1..Len(Declared(c)) :
        LET fmt == Entry(ConfigOf(c).DATE_FORMAT_MAP, Declared(c)[i].name)
        IN  IsDateType(Declared(c)[i].type) /\ fmt # <<>> => SecondPrecision(fmt)

\* a from_dict call on the tree to_dict gave for the instance in self
Reloaded == op = "from_dict" /\ self # Null

\* C1: round trip.  Decoding what to_dict produced for an instance whose
\* date fields are written losslessly gives back an equal instance.
C1_RoundTrip ==
    (Reloaded /\ Lossless(cls)) => (~IsErr(result) /\ PyEq(result, self))

\* C2: null coalescing.  A present null decodes to the zero-argument
\* default instance where the field is declared as a record type that has
\* one, and to null where it is declared as an optional scalar.
C2_NullCoalescing ==
    (op = "from_dict" /\ data.k = "map" /\ ~IsErr(result)) =>
        \A i \in 1..Len(Declared(cls)) :
            LET fd == Declared(cls)[i] IN
            (HasKey(data, fd.name) /\ Lookup(data, fd.name) = Null) =>
                /\ (fd.type.t = "rec" /\ ~IsErr(ZeroArg(fd.type.cls)))
                       => result.f[fd.name] = ZeroArg(fd.type.cls)
                /\ (fd.type.t = "optional" /\ fd.type.arg.t = "scalar")
                       => result.f[fd.name] = Null

\* the date and the time of day of a datetime, whatever its zone
Wall(dt) == <<dt.Y, dt.m, dt.d, dt.H, dt.M, dt.S>>

\* the formats of fl that read raw
Accepting(raw, fl) == {j \in 1..Len(fl) : strptime(raw, fl[j]) # Fail}

\* C3: fallback order within input_formats.  The configured input formats
\* are tried in list order; the decoded date is the reading of the first
\* format that accepts the text, never that of a later one.
C3_FirstInputFormatWins ==
    (op = "from_dict" /\ data.k = "map") =>
        \A i \in 1..Len(Declared(cls)) :
            LET fd == Declared(cls)[i]
                fl == Entry(ConfigOf(cls).DATE_INPUT_FORMATS, fd.name)
                raw == Lookup(data, fd.name)
                first == CHOOSE j \in Accepting(raw, fl) :
                             \A j2 \in Accepting(raw, fl) : j <= j2
            IN  (IsDateType(fd.type) /\ HasKey(data, fd.name) /\ raw.k = "str"
                 /\ Accepting(raw, fl) # {}) =>
                    IF IsErr(result) THEN result.field # fd.name
                    ELSE /\ result.f[fd.name].k = "dt"
                         /\ Wall(result.f[fd.name]) = Wall(strptime(raw, fl[first]))

\* C3 witness: two configured formats read the text differently and the
\* decoded date is the first one's reading.
C3_Witness ==
    /\ op = "from_dict" /\ cls = "Event" /\ data.k = "map" /\ ~IsErr(result)
    /\ HasKey(data, "when") /\ Lookup(data, "when").k = "str"
    /\ LET fl == ConfigOf("Event").DATE_INPUT_FORMATS.when
           raw == Lookup(data, "when")
       IN  /\ Len(fl) >= 2
           /\ strptime(raw, fl[1]) # Fail /\ strptime(raw, fl[2]) # Fail
           /\ Wall(strptime(raw, fl[1])) # Wall(strptime(raw, fl[2]))
           /\ Wall(result.f.when) = Wall(strptime(raw, fl[1]))

\* every datetime inside a value
RECURSIVE DatesIn(_)
DatesIn(v) ==
    CASE v.k = "dt" -> {v}
      [] v.k = "list" -> UNION {DatesIn(v.v[i]) : i \in 1..Len(v.v)}
      [] v.k = "map" -> UNION {DatesIn(v.kv[i].val) : i \in 1..Len(v.kv)}
      [] v.k = "rec" -> UNION {DatesIn(v.f[n]) : n \in FieldNames(v.cls)}
      [] OTHER -> {}

\* the text ends in a UTC offset
HasZone(raw) == \E i \in 1..Len(raw.s) : raw.s[i].t = "off"
ZoneOfText(raw) == FixedTz(raw.s[CHOOSE i \in 1..Len(raw.s) : raw.s[i].t = "off"].h)

\* C4: timezone attachment on decode.  Every datetime from_dict returns
\* carries a zone: the zone written in the text where it has one, and
\* else the class's INPUT_NAIVE_TZ_NAME (never OUTPUT_TZ_NAME).
C4_DecodeAttachesInputZone ==
    (op = "from_dict" /\ ~IsErr(result)) =>
        /\ \A dt \in DatesIn(result) : dt.tz # "naive"
        /\ data.k = "map" =>
             \A n \in FieldNames(cls) :
                 (HasKey(data, n) /\ Lookup(data, n).k = "str" /\ result.f[n].k = "dt") =>
                     result.f[n].tz = IF HasZone(Lookup(data, n))
                                      THEN ZoneOfText(Lookup(data, n))
                                      ELSE ConfigOf(cls).INPUT_NAIVE_TZ_NAME

\* C4 witness: a text without zone was decoded by a class whose input and
\* output zones differ, and carries the input zone.
C4_Witness ==
    /\ op = "from_dict" /\ cls = "Event" /\ data.k = "map" /\ ~IsErr(result)
    /\ HasKey(data, "when") /\ Lookup(data, "when").k = "str"
    /\ ~HasZone(Lookup(data, "when"))
    /\ ConfigOf("Event").INPUT_NAIVE_TZ_NAME # ConfigOf("Event").OUTPUT_TZ_NAME
    /\ result.f.when.tz = ConfigOf("Event").INPUT_NAIVE_TZ_NAME

\* the ISO-8601 text of a wall clock at a UTC offset
IsoOf(v, off) ==
    Str(<<Num(4, v.Y), Lit("-"), Num(2, v.m), Lit("-"), Num(2, v.d), Lit("T"),
          Num(2, v.H), Lit(":"), Num(2, v.M), Lit(":"), Num(2, v.S), Off(off)>>)

\* C5: timezone attachment on encode.  A datetime without zone is written
\* with its own wall clock, stamped with the class's OUTPUT_TZ_NAME.
C5_EncodeStampsOutputZone ==
    op = "to_dict" =>
        \A n \in FieldNames(cls) :
            LET v == self.f[n]
                fmt == Entry(ConfigOf(cls).DATE_FORMAT_MAP, n)
            IN  (v.k = "dt" /\ v.tz = "naive") =>
                    Lookup(result, n) =
                        IF fmt = <<>>
                        THEN IsoOf(v, UtcOffset(ConfigOf(cls).OUTPUT_TZ_NAME, v.m))
                        ELSE strftime(v, fmt)

\* C5 witness: a naive datetime was encoded by a class whose input and
\* output zones differ.
C5_Witness ==
    /\ op = "to_dict" /\ cls = "Event" /\ self.f.when.tz = "naive"
    /\ ConfigOf("Event").INPUT_NAIVE_TZ_NAME # ConfigOf("Event").OUTPUT_TZ_NAME
    /\ Entry(ConfigOf("Event").DATE_FORMAT_MAP, "when") = <<>>
    /\ Lookup(result, "when") =
           IsoOf(self.f.when, UtcOffset(ConfigOf("Event").OUTPUT_TZ_NAME, self.f.when.m))

\* a mapping without the keys that name no field of c
KnownOnly(c, d) == Map(SelectSeq(d.kv, LAMBDA e : e.key \in FieldNames(c)))

\* C6: unknown keys are ignored.  from_dict gives the same result, or the
\* same error, as on the mapping without its undeclared keys.
C6_UnknownKeysIgnored ==
    (op = "from_dict" /\ data.k = "map") =>
        result = from_dict(cls, KnownOnly(cls, data))

\* C6 witness: a mapping with undeclared keys was decoded into a record.
C6_Witness ==
    /\ op = "from_dict" /\ cls = "Event" /\ data.k = "map"
    /\ KeySet(data) \ FieldNames("Event") # {}
    /\ result.k = "rec" /\ result.f.when.k = "dt"

\* no rule of the chain reads raw as the date of field name of class c
NoRuleParses(c, name, raw) ==
    /\ \A j \in 1..Len(Entry(ConfigOf(c).DATE_INPUT_FORMATS, name)) :
           strptime(raw, Entry(ConfigOf(c).DATE_INPUT_FORMATS, name)[j]) = Fail
    /\ Entry(ConfigOf(c).DATE_FORMAT_MAP, name) # <<>> =>
           strptime(raw, Entry(ConfigOf(c).DATE_FORMAT_MAP, name)) = Fail
    /\ fromisoformat(raw) = Fail
    /\ strptime(raw, Fallbacks[1]) = Fail
    /\ strptime(raw, Fallbacks[2]) = Fail

\* the date fields of class c whose value in mapping d no rule reads
Unparsable(c, d) ==
    {i \in 1..Len(Declared(c)) :
        /\ IsDateType(Declared(c)[i].type)
        /\ HasKey(d, Declared(c)[i].name)
        /\ Lookup(d, Declared(c)[i].name) # Null
        /\ NoRuleParses(c, Declared(c)[i].name, Lookup(d, Declared(c)[i].name))}

\* C7: parse failure.  When the value of a date field matches no rule,
\* from_dict returns no record: it fails with the date parse error, which
\* carries the name of the field and the raw value.
C7_ParseFailureRaises ==
    (op = "from_dict" /\ data.k = "map" /\ Unparsable(cls, data) # {}) =>
        /\ IsErr(result)
        /\ result.type = "ValueError"
        /\ \E i \in Unparsable(cls, data) :
               /\ result.field = Declared(cls)[i].name
               /\ result.raw = Lookup(data, Declared(cls)[i].name)

\* the fields of instance x that hold a list of records
RecordLists(x) ==
    {n \in FieldNames(x.cls) :
        /\ x.f[n].k = "list"
        /\ Len(x.f[n].v) > 0
        /\ \A i \in 1..Len(x.f[n].v) : x.f[n].v[i].k = "rec"}

\* C8: sequence recursion.  to_dict writes a list of n records as the
\* list of their n to_dict maps, in order; from_dict of that tree gives
\* back a list of n record instances equal to the originals.
C8_SequenceRecursion ==
    /\ op = "to_dict" =>
         \A n \in RecordLists(self) :
             /\ Lookup(result, n).k = "list"
             /\ Len(Lookup(result, n).v) = Len(self.f[n].v)
             /\ \A i \in 1..Len(self.f[n].v) :
                    Lookup(result, n).v[i] = to_dict(self.f[n].v[i])
    /\ Reloaded =>
         \A n \in RecordLists(self) :
             /\ ~IsErr(result)
             /\ result.f[n].k = "list"
             /\ Len(result.f[n].v) = Len(self.f[n].v)
             /\ \A i \in 1..Len(self.f[n].v) :
                    /\ result.f[n].v[i].k = "rec"
                    /\ PyEq(result.f[n].v[i], self.f[n].v[i])

\* C9: encode key set and order.  The map to_dict returns has one key per
\* declared field, None-valued fields included, in declaration order.
C9_KeysAreFieldsInOrder ==
    op = "to_dict" =>
        /\ result.k = "map"
        /\ Keys(result) = [i \in 1..Len(Declared(cls)) |-> Declared(cls)[i].name]

\* C9 witness: a timeline with None-valued fields was encoded.
C9_Witness ==
    /\ op = "to_dict" /\ cls = "Timeline"
    /\ self.f.beschrijving = Null /\ self.f.gegenereerd_op = Null
    /\ Len(result.kv) = Len(Timeline)

\* C10: repository read tolerance.  When decoding the stored source into a
\* Timeline fails, get returns None (not found) instead of raising, as it
\* does when the lookup in the store fails.
C10_GetToleratesDecodeFailure ==
    (op = "get" /\ store[data] # Null
     /\ IsErr(from_dict("Timeline", store[data]))) => result = Null

\* the declared type without its Optional wrapper
Unwrapped(type) == IF type.t = "optional" THEN type.arg ELSE type

\* the runtime shape of value disagrees with the declared type: no mapping
\* where a record or a mapping is declared, no list where a list is
ShapeMismatch(type, value) ==
    \/ Unwrapped(type).t \in {"rec", "dict"} /\ value.k # "map"
    \/ Unwrapped(type).t = "list" /\ value.k # "list"

\* C11: shape mismatch is never absorbed.  When a present non-null value
\* has not the shape its field declares (and no hook handles the field),
\* from_dict fails; it returns no record.
C11_ShapeMismatchRaises ==
    (op = "from_dict" /\ data.k = "map") =>
        \A i \in 1..Len(Declared(cls)) :
            LET fd == Declared(cls)[i] IN
            (/\ HasKey(data, fd.name)
             /\ Lookup(data, fd.name) # Null
             /\ ShapeMismatch(fd.type, Lookup(data, fd.name))
             /\ _deserialize_field(cls, fd.name, Lookup(data, fd.name),
                                   fields(cls)[i].type) = MISSING)
                => IsErr(result)

\* the declared types a decode rule names (Optional and Union, datetime,
\* record, sequence, mapping) and the scalars that pass through
RuleTypes == {"optional", "union", "datetime", "rec", "list", "dict"}
Passthrough == {"scalar", "any"}

\* C12: unsupported declared type.  When the declared type of a field is
\* neither one a decode rule names nor a passthrough scalar (and no hook
\* handles the field), from_dict of a present non-null value fails; it
\* returns no record.
C12_UnsupportedTypeRaises ==
    (op = "from_dict" /\ data.k = "map") =>
        \A i \in 1..Len(Declared(cls)) :
            LET fd == Declared(cls)[i] IN
            (/\ HasKey(data, fd.name)
             /\ Lookup(data, fd.name) # Null
             /\ fd.type.t \notin RuleTypes \cup Passthrough
             /\ _deserialize_field(cls, fd.name, Lookup(data, fd.name),
                                   fields(cls)[i].type) = MISSING)
                => IsErr(result)

\* v is an instance of record class c whose fields hold what they declare:
\* a datetime where a date is declared, instances where records are
\* declared (directly or in a list), themselves decoded; None is allowed
\* in a field
RECURSIVE FullyDecoded(_, _)
FullyDecoded(c, v) ==
    /\ v.k = "rec"
    /\ v.cls = c
    /\ \A i \in 1..Len(Declared(c)) :
           LET x == v.f[Declared(c)[i].name]
               t == Unwrapped(Declared(c)[i].type)
           IN  \/ x = Null
               \/ CASE t.t = "datetime" -> x.k = "dt"
                    [] t.t = "rec" -> FullyDecoded(t.cls, x)
                    [] t.t = "list" /\ t.arg.t = "rec" ->
                         /\ x.k = "list"
                         /\ \A j \in 1..Len(x.v) : FullyDecoded(t.arg.cls, x.v[j])
                    [] OTHER -> TRUE

\* C13: no partially-initialized nested record.  In a record from_dict
\* returns, a field declared as a nested record type (and decoded from a
\* present mapping) holds an instance of that type with its own fields
\* decoded; it never holds the raw mapping or an instance with undecoded
\* fields.
C13_NestedRecordsDecoded ==
    (op = "from_dict" /\ data.k = "map" /\ ~IsErr(result)) =>
        \A i \in 1..Len(Declared(cls)) :
            LET fd == Declared(cls)[i] IN
            (/\ fd.type.t = "rec"
             /\ HasKey(data, fd.name)
             /\ Lookup(data, fd.name).k = "map"
             /\ _deserialize_field(cls, fd.name, Lookup(data, fd.name),
                                   fields(cls)[i].type) = MISSING)
                => FullyDecoded(fd.type.cls, result.f[fd.name])

\* the dates of nested record v are written in out by v's own class: with
\* its DATE_FORMAT_MAP entry for the field and its OUTPUT_TZ_NAME
OwnDatesWritten(v, out) ==
    \A i \in 1..Len(fields(v.cls)) :
        LET m == fields(v.cls)[i].name IN
        (/\ v.f[m].k = "dt"
         /\ _serialize_field(v.cls, m, v.f[m], fields(v.cls)[i].type) = MISSING)
            => Lookup(out, m) = serialize_datetime(v.cls, m, v.f[m])

\* the dates of nested record v decoded from mapping d are the ones v's
\* own class reads: by its DATE_INPUT_FORMATS and DATE_FORMAT_MAP entries
OwnDatesRead(v, d) ==
    \A i \in 1..Len(Declared(v.cls)) :
        LET m == Declared(v.cls)[i].name IN
        (/\ IsDateType(Declared(v.cls)[i].type)
         /\ HasKey(d, m) /\ Lookup(d, m).k = "str"
         /\ v.f[m].k = "dt")
            => v.f[m] = deserialize_datetime(v.cls, m, Lookup(d, m))

AloneResult(call) ==
    IF call.kind = "to_dict" THEN to_dict(call.arg)
    ELSE from_dict(call.cls, call.arg)

\* C15: statelessness.  No step of a to_dict or from_dict call changes the
\* per-type configuration, whatever other calls run before it or between
\* its steps; and every finished call has the result its own arguments
\* give when it runs alone.
C15_Stateless ==
    /\ [][config' = config]_vars
    /\ [](\A p \in Callers :
             calls[p].st = "done" => calls[p].result = AloneResult(calls[p]))

\* C15 witness: a thread has finished a from_dict call that read dates
\* while the other thread was between two steps of a to_dict call.
C15_Witness ==
    \E p, q \in Callers :
        /\ p # q
        /\ calls[p].st = "done" /\ calls[p].kind = "from_dict"
        /\ calls[p].cls = "Event" /\ ~IsErr(calls[p].result)
        /\ calls[q].st = "run" /\ calls[q].kind = "to_dict" /\ calls[q].i > 1
        /\ calls[p].result = AloneResult(calls[p])

\* the value a field with a default takes when no keyword is given for it
DefaultOf(fd) ==
    CASE fd.dflt.kind = "value" -> fd.dflt.v
      [] fd.dflt.make = "list" -> List(<<>>)
      [] fd.dflt.make = "dict" -> Map(<<>>)
      [] OTHER -> ZeroArg(fd.dflt.make)

\* C16: absent key rule.  A declared field whose key is absent from the
\* mapping takes its declared default when it has one; otherwise it takes
\* the value that decoding a present null against its declared type gives
\* (null coalescing and the decode hook included).
C16_AbsentKeyDecodesNull ==
    (op = "from_dict" /\ data.k = "map" /\ ~IsErr(result)) =>
        \A i \in 1..Len(fields(cls)) :
            LET fd == fields(cls)[i] IN
            ~HasKey(data, fd.name) =>
                result.f[fd.name] =
                    IF fd.dflt.kind # "MISSING" THEN DefaultOf(fd)
                    ELSE _deserialize_value(cls, fd.name, Null, fd.type)

\* C17: decode override precedence.  When the class's _deserialize_field
\* handles a present field (returns anything but MISSING, None included),
\* the decoded field is exactly what it returned: no null coalescing, no
\* delegation, no date parsing (so no date error for that field), no
\* recursion.
C17_DecodeHookWins ==
    (op = "from_dict" /\ data.k = "map") =>
        \A i \in 1..Len(fields(cls)) :
            LET fd == fields(cls)[i]
                hook == _deserialize_field(cls, fd.name, Lookup(data, fd.name), fd.type)
            IN  (HasKey(data, fd.name) /\ hook # MISSING) =>
                    IF IsErr(result) THEN result.field # fd.name
                    ELSE result.f[fd.name] = hook

\* C17 witness: the hook of Reading handled a null under a record field
\* (kept None, not the default instance) and a text that is no date under
\* a date field (kept the text, no error).
C17_Witness ==
    /\ op = "from_dict" /\ cls = "Reading" /\ data.k = "map" /\ ~IsErr(result)
    /\ HasKey(data, "pinned") /\ Lookup(data, "pinned") = Null
    /\ HasKey(data, "seen") /\ Lookup(data, "seen") = Word("x")
    /\ result.f.pinned = Null
    /\ result.f.seen = Word("x")
    /\ result.f.source = ZeroArg("Speaker")

\* C18: encode override precedence.  When the class's _serialize_field
\* handles a field (returns anything but MISSING, None included), to_dict
\* emits exactly what it returned under the field's key: no test for None,
\* no date formatting, no recursion; when it returns MISSING the default
\* rules apply.
C18_EncodeHookWins ==
    op = "to_dict" =>
        \A i \in 1..Len(fields(cls)) :
            LET fd == fields(cls)[i]
                v == self.f[fd.name]
                hook == _serialize_field(cls, fd.name, v, fd.type)
            IN  Lookup(result, fd.name) =
                    IF hook # MISSING THEN hook
                    ELSE CASE v.k = "null" -> Null
                           [] v.k = "dt" -> serialize_datetime(cls, fd.name, v)
                           [] v.k = "rec" -> to_dict(v)
                           [] v.k = "list" ->
                                List([j \in 1..Len(v.v) |->
                                         IF v.v[j].k = "rec" THEN to_dict(v.v[j])
                                         ELSE v.v[j]])
                           [] v.k = "map" ->
                                Map([j \in 1..Len(v.kv) |->
                                        KV(v.kv[j].key,
                                           CASE v.kv[j].val.k = "rec" ->
                                                    to_dict(v.kv[j].val)
                                             [] v.kv[j].val.k = "dt" ->
                                                    serialize_datetime(cls, fd.name,
                                                                       v.kv[j].val)
                                             [] OTHER -> v.kv[j].val)])
                           [] OTHER -> v

\* C18 witness: the hook of Reading handled a None-valued field (emitted
\* "p", not None) and a non-null one (emitted None), and the fields it
\* does not handle were encoded by the default rules.
C18_Witness ==
    /\ op = "to_dict" /\ cls = "Reading"
    /\ self.f.pinned = Null /\ Lookup(result, "pinned") = Word("p")
    /\ self.f.note = b /\ Lookup(result, "note") = Null
    /\ self.f.seen.k = "dt" /\ Lookup(result, "seen").k = "str"
    /\ Lookup(result, "source") = to_dict(self.f.source)

\* the rules a date text is tried against, in the order of the claim: the
\* configured input formats, the configured output format, ISO-8601, then
\* day-month-year and year-month-day with a time
Chain(c, name) ==
    Entry(ConfigOf(c).DATE_INPUT_FORMATS, name)
    \o (IF Entry(ConfigOf(c).DATE_FORMAT_MAP, name) = <<>> THEN <<>>
        ELSE <<Entry(ConfigOf(c).DATE_FORMAT_MAP, name)>>)
    \o << <<"iso">> >>
    \o << <<"%d", "-", "%m", "-", "%Y", " ", "%H", ":", "%M", ":", "%S">>,
          <<"%Y", "-", "%m", "-", "%d", " ", "%H", ":", "%M", ":", "%S">> >>

\* what rule r reads in raw
ReadBy(r, raw) == IF r = <<"iso">> THEN fromisoformat(raw) ELSE strptime(raw, r)

\* the rules of the chain that accept raw
Accepted(c, name, raw) ==
    {j \in 1..Len(Chain(c, name)) : ReadBy(Chain(c, name)[j], raw) # Fail}

\* C19: full date fallback chain.  Decoding a text under a date field
\* returns the date read by the first rule of the chain that accepts it; a
\* later rule never decides.
C19_FirstRuleOfChainWins ==
    (op = "from_dict" /\ data.k = "map") =>
        \A i \in 1..Len(Declared(cls)) :
            LET fd == Declared(cls)[i]
                raw == Lookup(data, fd.name)
                hits == Accepted(cls, fd.name, raw)
                first == CHOOSE j \in hits : \A j2 \in hits : j <= j2
            IN  (/\ IsDateType(fd.type)
                 /\ HasKey(data, fd.name) /\ raw.k = "str"
                 /\ _deserialize_field(cls, fd.name, raw, fields(cls)[i].type) = MISSING
                 /\ hits # {}) =>
                    IF IsErr(result)
                    THEN ~(result.field = fd.name /\ result.raw = raw)
                    ELSE /\ result.f[fd.name].k = "dt"
                         /\ Wall(result.f[fd.name]) =
                                Wall(ReadBy(Chain(cls, fd.name)[first], raw))

\* C20: union restriction.  A field declared as a union of two or more
\* non-null alternatives is neither unwrapped nor read as a date: a non-null
\* value given for it is kept as it is and raises no date error, even when
\* one of the alternatives is datetime.
C20_WideUnionNotParsed ==
    (op = "from_dict" /\ data.k = "map") =>
        \A i \in 1..Len(Declared(cls)) :
            LET fd == Declared(cls)[i]
                typ == fields(cls)[i].type
                raw == Lookup(data, fd.name)
            IN  (/\ typ.t = "union"
                 /\ HasKey(data, fd.name) /\ raw # Null
                 /\ _deserialize_field(cls, fd.name, raw, typ) = MISSING) =>
                    /\ ~(IsErr(result) /\ result.type = "ValueError"
                            /\ result.field = fd.name)
                    /\ ~IsErr(result) => result.f[fd.name] = raw

\* C21: mapping decode.  For a field declared as a mapping with value type
\* V that is given a mapping, from_dict returns a mapping with the keys of
\* the input, the same and in the same order, int keys included, and under
\* each key the input's value decoded against V: a record where V is a
\* record type, a datetime where V is datetime.
C21_MappingDecode ==
    (op = "from_dict" /\ data.k = "map" /\ ~IsErr(result)) =>
        \A i \in 1..Len(Declared(cls)) :
            LET fd == Declared(cls)[i]
                raw == Lookup(data, fd.name)
                out == result.f[fd.name]
            IN  (/\ Unwrapped(fd.type).t = "dict"
                 /\ HasKey(data, fd.name) /\ raw.k = "map"
                 /\ _deserialize_field(cls, fd.name, raw, fields(cls)[i].type) = MISSING) =>
                    /\ out.k = "map"
                    /\ Keys(out) = Keys(raw)
                    /\ \A j \in 1..Len(raw.kv) :
                           out.kv[j].val =
                               _deserialize_value(cls, fd.name, raw.kv[j].val,
                                                  Unwrapped(fd.type).val)

\* C21 witness: Panel.from_dict was given seats under the keys "x", "y" and
\* 1; it returned Speaker instances under the same three keys.
C21_Witness ==
    /\ op = "from_dict" /\ cls = "Panel" /\ ~IsErr(result)
    /\ HasKey(data, "seats") /\ Lookup(data, "seats").k = "map"
    /\ Keys(Lookup(data, "seats")) = <<"x", "y", IntKey(1)>>
    /\ Keys(result.f.seats) = <<"x", "y", IntKey(1)>>
    /\ \A j \in 1..3 : result.f.seats.kv[j].val.k = "rec"
    /\ Lookup(result.f.seats, "x").f.name = a

\* a generic tree: scalars, lists of generic trees, and mappings from str
\* keys to generic trees
RECURSIVE Generic(_)
Generic(v) ==
    CASE v.k \in {"null", "str", "int"} -> TRUE
      [] v.k = "list" -> \A i \in 1..Len(v.v) : Generic(v.v[i])
      [] v.k = "map" ->
           \A i \in 1..Len(v.kv) : v.kv[i].key \notin IntKeys /\ Generic(v.kv[i].val)
      [] OTHER -> FALSE

\* C22: encode yields a generic tree.  Whatever instance to_dict is called
\* on, the value it returns holds, at every depth, only scalars, lists and
\* mappings whose keys are strs: no record instance, no datetime and no key
\* that is not a str.
C22_EncodeYieldsGenericTree == op = "to_dict" => Generic(result)

\* the component of dt that directive d shows
Part(dt, d) ==
    CASE d = "%Y" -> dt.Y [] d = "%m" -> dt.m [] d = "%d" -> dt.d
      [] d = "%H" -> dt.H [] d = "%M" -> dt.M [] d = "%S" -> dt.S

Directives == {"%Y", "%m", "%d", "%H", "%M", "%S"}

\* the instant v stands for on encode: a value without zone counts as
\* wall clock of the output zone
InstantOf(v, out) == Wall(ToUtc(IF v.tz = "naive" THEN replace_tzinfo(v, out) ELSE v))

\* C23: encode date rendering.  to_dict writes a datetime field as text of
\* the same instant in the class's output zone: without an output format
\* for the field the text is ISO-8601 and reads back as that instant with
\* the output zone's offset; with one, the text reads back under that
\* format and every component the format shows is the one of the output
\* zone's wall clock.
C23_EncodeRendersDates ==
    op = "to_dict" =>
        \A n \in FieldNames(cls) :
            LET v == self.f[n]
                out == ConfigOf(cls).OUTPUT_TZ_NAME
                fmt == Entry(ConfigOf(cls).DATE_FORMAT_MAP, n)
                text == Lookup(result, n)
                utc == [k |-> "dt", Y |-> InstantOf(v, out)[1], m |-> InstantOf(v, out)[2],
                        d |-> InstantOf(v, out)[3], H |-> InstantOf(v, out)[4],
                        M |-> InstantOf(v, out)[5], S |-> InstantOf(v, out)[6],
                        tz |-> "UTC"]
                local == astimezone(utc, out)
            IN  (v.k = "dt" /\ _serialize_field(cls, n, v, FieldNamed(cls, n).type) = MISSING) =>
                    /\ text.k = "str"
                    /\ IF fmt = <<>>
                       THEN /\ fromisoformat(text) # Fail
                            /\ Wall(ToUtc(fromisoformat(text))) = InstantOf(v, out)
                            /\ UtcOffset(fromisoformat(text).tz, fromisoformat(text).m)
                                   = UtcOffset(out, local.m)
                            /\ Wall(fromisoformat(text)) = Wall(local)
                       ELSE /\ strptime(text, fmt) # Fail
                            /\ \A i \in 1..Len(fmt) :
                                   fmt[i] \in Directives =>
                                       Part(strptime(text, fmt), fmt[i]) = Part(local, fmt[i])

\* C23 witness: an Event whose output zone is UTC was encoded; its "when",
\* 12:00:30 at +02:00, has no output format and was written as ISO text of
\* 10:00:30 at +00:00; its "stamp" was written in the configured format.
C23_Witness ==
    /\ op = "to_dict" /\ cls = "Event"
    /\ ConfigOf("Event").OUTPUT_TZ_NAME = "UTC"
    /\ ConfigOf("Event").DATE_FORMAT_MAP = [stamp |-> Fallbacks[1]]
    /\ self.f.when = DT(2024, 2, 1, 12, 0, 30, "+02:00")
    /\ Lookup(result, "when") = IsoOf(DT(2024, 2, 1, 10, 0, 30, "UTC"), 0)
    /\ self.f.stamp = DT(2024, 2, 1, 0, 0, 0, "naive")
    /\ Lookup(result, "stamp") =
           Str(Dash(2, 1, 2, 2, 4, 2024)
               \o <<Lit(" "), Num(2, 0), Lit(":"), Num(2, 0), Lit(":"), Num(2, 0)>>)

\* the keyword arguments from_dict passes when no value is decoded: the
\* given value for a present key, None for an absent required field
Untouched(c, d) ==
    [n \in {Declared(c)[i].name : i \in {j \in 1..Len(Declared(c)) :
                HasKey(d, Declared(c)[j].name) \/ Declared(c)[j].dflt.kind = "MISSING"}} |->
        IF HasKey(d, n) THEN Lookup(d, n) ELSE Null]

\* C24 as stated: for every record class of the repository, from_dict of a
\* mapping raises no date error and returns an instance that holds every
\* present value, null or not, exactly as the mapping gave it.
C24_EveryClassPassesThrough ==
    (op = "from_dict" /\ cls \in RepoClasses /\ data.k = "map") =>
        /\ ~(IsErr(result) /\ result.type = "ValueError")
        /\ ~IsErr(result) =>
               \A n \in FieldNames(cls) \cap KeySet(data) : result.f[n] = Lookup(data, n)

\* C24, amended: for every record class of the repository from_dict hands
\* every present value, null or not, to the constructor exactly as the
\* mapping gave it, and raises no date error.  Every class but SearchQuery
\* keeps the values as they are and never fails on a mapping; SearchQuery's
\* __post_init__ then strips term and replaces document_types by
\* list(document_types or []), or raises when it cannot.
C24_PostponedTypesPassThrough ==
    (op = "from_dict" /\ cls \in RepoClasses /\ data.k = "map") =>
        /\ ~(IsErr(result) /\ result.type = "ValueError")
        /\ result = Construct(cls, DOMAIN Untouched(cls, data), Untouched(cls, data))
        /\ cls # "SearchQuery" =>
               /\ ~IsErr(result)
               /\ \A n \in FieldNames(cls) \cap KeySet(data) :
                      result.f[n] = Lookup(data, n)
        /\ (cls = "SearchQuery" /\ ~IsErr(result)) =>
               /\ result.f.term = strip(Lookup(data, "term"))
               /\ result.f.document_types.k = "list"

\* C24 witness: Timeline.from_dict was given a list of document mappings
\* whose created_at is a date text; the instance holds that very list, its
\* elements still mappings and their dates still text.
C24_Witness ==
    /\ op = "from_dict" /\ cls = "Timeline" /\ data.k = "map" /\ ~IsErr(result)
    /\ HasKey(data, "documents") /\ Lookup(data, "documents").k = "list"
    /\ Len(Lookup(data, "documents").v) = 2
    /\ result.f.documents = Lookup(data, "documents")
    /\ result.f.documents.v[1].k = "map"
    /\ Lookup(result.f.documents.v[1], "created_at") = IsoText

\* ------------------------------------------------ Timeline normalization
\* services/timeline.py: _normalize_timeline and what it calls.  The
\* service class is called Timeline as the data model is; here the names
\* of its methods stand for it.

\* hashlib.md5(text.encode("utf-8")).hexdigest(): a str that depends on
\* the text only
md5(text) == Str(<<Lit("md5:")>> \o text.s)

\* repr(raw) of a dict
repr(raw) == Word("repr")

\* dict.get(key): None without the key
Get(d, key) == IF HasKey(d, key) THEN Lookup(d, key) ELSE Null

\* x or y
Or(x, y) == IF Truthy(x) THEN x ELSE y

_map_processed_document(raw) ==
    LET identifier == Or(Get(raw, "doc_identifier"), Get(raw, "id"))
        fallback_source ==
            Or(Get(raw, "title"),
               Or(Get(raw, "publisher_link"), Or(Get(raw, "document_link"), repr(raw))))
    IN  IF ~Truthy(identifier) /\ fallback_source.k # "str"
        THEN Err("AttributeError", "", fallback_source)
        ELSE Map(<<KV("id", IF Truthy(identifier) THEN identifier
                            ELSE md5(fallback_source)),
                   KV("title", IF HasKey(raw, "title") THEN Lookup(raw, "title")
                               ELSE Word("Onbekend document")),
                   KV("created_at", Get(raw, "created_at")),
                   KV("publisher", Get(raw, "publisher")),
                   KV("summary", Get(raw, "summary")),
                   KV("publisher_link", Get(raw, "publisher_link")),
                   KV("content_text", Or(Get(raw, "content_text"), List(<<>>))),
                   KV("informatieobject", Or(Get(raw, "informatieobject"), Map(<<>>)))>>)

\* _normalize_chunk handing an unsupported payload on as it is
_normalize_chunk_keeping(chunk) ==
    CASE chunk.k = "null" -> Null
      [] chunk.k = "rec" /\ chunk.cls = "ContentChunk" -> chunk
      [] chunk.k = "map" -> from_dict("ContentChunk", chunk)
      [] chunk.k = "str" ->
           Rec("ContentChunk", [chunk_identifier |-> md5(chunk), content |-> chunk])
      [] OTHER -> chunk

\* _normalize_chunk; Null is its "return None"
_normalize_chunk(chunk) ==
    CASE chunk.k = "null" -> Null
      [] chunk.k = "rec" /\ chunk.cls = "ContentChunk" -> chunk
      [] chunk.k = "map" -> from_dict("ContentChunk", chunk)
      [] chunk.k = "str" ->
           Rec("ContentChunk", [chunk_identifier |-> md5(chunk), content |-> chunk])
      [] OTHER -> Null

\* _normalize_chunks: "for chunk in chunks or []"
_normalize_chunks(chunks) ==
    Bound(chunks, LAMBDA cs :
        IF ~Truthy(cs) THEN List(<<>>)
        ELSE IF ~Iterable(cs) THEN Err("TypeError", "", cs)
        ELSE Bound([i \in 1..Len(Iterate(cs)) |-> _normalize_chunk(Iterate(cs)[i])],
                   LAMBDA each :
                       IF HasErr(each) THEN FirstErr(each)
                       ELSE List(SelectSeq(each, LAMBDA c : c # Null))))

\* the model _normalize_document makes of its argument
DocumentModel(document) ==
    CASE document.k = "map" ->
           Bound(IF HasKey(document, "doc_identifier") /\ ~HasKey(document, "id")
                 THEN _map_processed_document(document)
                 ELSE document,
                 LAMBDA payload :
                     IF IsErr(payload) THEN payload
                     ELSE from_dict("TimelineDocument", payload))
      [] document.k = "rec" /\ document.cls = "TimelineDocument" -> document
      [] OTHER -> Err("TypeError", "", document)

_normalize_document(document) ==
    Bound(document, LAMBDA d :
        Bound(DocumentModel(d), LAMBDA model :
            IF IsErr(model) THEN model
            ELSE Bound(_normalize_chunks(Or(model.f.content_text, List(<<>>))),
                       LAMBDA content_text :
                           IF IsErr(content_text) THEN content_text
                           ELSE [model EXCEPT !.f.content_text = content_text])))

\* the model _normalize_timeline makes of its argument
TimelineModel(timeline) ==
    CASE timeline.k = "map" -> from_dict("Timeline", timeline)
      [] timeline.k = "rec" /\ timeline.cls = "Timeline" -> timeline
      [] OTHER -> Err("TypeError", "", timeline)

_normalize_timeline(timeline) ==
    Bound(timeline, LAMBDA t :
        Bound(TimelineModel(t), LAMBDA model :
            IF IsErr(model) THEN model
            ELSE IF ~Iterable(model.f.documents)
                 THEN Err("TypeError", "", model.f.documents)
            ELSE Bound([i \in 1..Len(Iterate(model.f.documents)) |->
                           _normalize_document(Iterate(model.f.documents)[i])],
                       LAMBDA docs :
                           IF HasErr(docs) THEN FirstErr(docs)
                           ELSE [model EXCEPT !.f.documents = List(docs)])))

\* what is found where chunks belong: in a stored timeline, in a processed
\* document, in a model built by hand
ChunkLists ==
    {Null, a, PyInt(5), PyInt(0), List(<<>>), List(<<a, Null, PyInt(5)>>),
     List(<<Chunk, Map(<<KV("chunk_identifier", a), KV("content", b)>>)>>),
     List(<<Map(<<>>), List(<<a>>), b>>)}

\* what is found where a document belongs: a stored document (a mapping
\* with id), a processed document (doc_identifier, no id), a model, others
DocPayloads ==
    {Map(<<KV("id", a), KV("title", b), KV("created_at", Word("x")),
           KV("content_text", ct)>>) : ct \in ChunkLists}
    \cup {DocOf(a, Null, <<>>), DocOf(b, Null, <<a, Null, Chunk>>)}
    \cup {Map(<<KV("doc_identifier", i), KV("title", t), KV("content_text", Null)>>) :
            i \in {a, Null}, t \in {b, Null, PyInt(5)}}
    \cup {Map(<<KV("doc_identifier", a), KV("id", b)>>), PyInt(5), a, Chunk}

\* what a Timeline built by _build_timeline or by hand holds as documents
ModelDocs ==
    {DocOf(a, Null, <<>>), DocOf(b, Null, <<a, Null, Chunk>>),
     Map(<<KV("id", a), KV("content_text", List(<<a, Null, PyInt(5)>>))>>),
     Map(<<KV("doc_identifier", a), KV("title", b), KV("content_text", Null)>>)}

\* the longest list of documents of a payload
MaxPayloadDocs == 2

TimelinePayloads ==
    {Map(<<KV("identifier", a), KV("name", b), KV("documents", List(ds))>>) :
        ds \in ListsOver(DocPayloads, MaxPayloadDocs)}
    \cup {TimelineOf(a, ds, Null) : ds \in ListsOver(ModelDocs, MaxPayloadDocs)}
    \cup {Map(<<KV("identifier", a), KV("documents", v)>>) :
            v \in {Null, a, PyInt(5), Map(<<KV("id", a)>>)}}
    \cup {Map(<<KV("identifier", a)>>), PyInt(5), Null, Chunk}

NormInit ==
    /\ config = [BaseModel |-> BaseConfig]
    /\ store = [i \in Ids |-> Null]
    /\ op = "none"
    /\ cls = "none"
    /\ self = Null
    /\ data = Null
    /\ result = Null
    /\ calls = [p \in Callers |-> Idle]
    /\ run = NoRun
    /\ log = <<>>
    /\ tmp = FALSE

\* a caller (summarize, _build_timeline) normalizes a payload
Normalize ==
    \E timeline \in TimelinePayloads :
        /\ op = "none"
        /\ op' = "_normalize_timeline"
        /\ data' = timeline
        /\ result' = _normalize_timeline(timeline)
        /\ UNCHANGED <<config, store, cls, self, calls, run, log, tmp>>

\* a second caller (_update_single_doc_summary, _update_all_summaries)
\* normalizes what the first call returned
NormalizeAgain ==
    /\ op = "_normalize_timeline"
    /\ ~IsErr(result)
    /\ op' = "_normalize_timeline again"
    /\ self' = result
    /\ result' = _normalize_timeline(result)
    /\ UNCHANGED <<config, store, cls, data, calls, run, log, tmp>>

NormNext == Normalize \/ NormalizeAgain \/ Return

NormSpec == NormInit /\ [][NormNext]_vars

\* the chunk payloads _normalize_chunk turns into a ContentChunk
Supported(chunk) ==
    \/ chunk.k \in {"map", "str"}
    \/ chunk.k = "rec" /\ chunk.cls = "ContentChunk"

\* C25: timeline normalization.  When _normalize_timeline returns, it
\* returns a Timeline whose documents are all TimelineDocument instances
\* and whose chunks are all ContentChunk instances; of a list of chunk
\* payloads the null and unsupported ones are gone, the others are kept in
\* order, and a chunk given as text carries the md5 of that text as its
\* identifier; normalizing the result again changes nothing.
C25_NormalizedTimeline ==
    (op \in {"_normalize_timeline", "_normalize_timeline again"} /\ ~IsErr(result)) =>
        /\ result.k = "rec" /\ result.cls = "Timeline"
        /\ result.f.documents.k = "list"
        /\ \A i \in 1..Len(result.f.documents.v) :
               LET doc == result.f.documents.v[i] IN
               /\ doc.k = "rec" /\ doc.cls = "TimelineDocument"
               /\ doc.f.content_text.k = "list"
               /\ \A j \in 1..Len(doc.f.content_text.v) :
                      /\ doc.f.content_text.v[j].k = "rec"
                      /\ doc.f.content_text.v[j].cls = "ContentChunk"
        /\ (op = "_normalize_timeline" /\ data.k = "map"
            /\ Get(data, "documents").k = "list") =>
               \A i \in 1..Len(Get(data, "documents").v) :
                   LET given == Get(data, "documents").v[i]
                       raw == IF given.k = "rec" THEN given.f.content_text
                              ELSE Get(given, "content_text")
                       out == result.f.documents.v[i].f.content_text.v
                       kept == SelectSeq(raw.v, Supported)
                   IN  raw.k = "list" =>
                           /\ Len(out) = Len(kept)
                           /\ \A j \in 1..Len(kept) :
                                  kept[j].k = "str" =>
                                      out[j] = Rec("ContentChunk",
                                                   [chunk_identifier |-> md5(kept[j]),
                                                    content |-> kept[j]])
        /\ _normalize_timeline(result) = result
        /\ op = "_normalize_timeline again" => result = self

\* C25 witness: a stored timeline with a document mapping whose chunks are
\* a text, a null and a number was normalized twice; the document is a
\* TimelineDocument with the one chunk of the text, both times.
C25_Witness ==
    /\ op = "_normalize_timeline again" /\ ~IsErr(result)
    /\ data.k = "map" /\ Get(data, "documents").k = "list"
    /\ Len(Get(data, "documents").v) = 1
    /\ Get(data, "documents").v[1].k = "map"
    /\ Get(Get(data, "documents").v[1], "content_text") = List(<<a, Null, PyInt(5)>>)
    /\ result.f.documents.v[1].cls = "TimelineDocument"
    /\ result.f.documents.v[1].f.content_text =
           List(<<Rec("ContentChunk", [chunk_identifier |-> md5(a), content |-> a])>>)
    /\ result = self

\* ------------------------------------------------ DocumentProcessor
\* services/processor.py.  tmp says whether the file at self.tmp_file
\* exists; run is the call in progress: its position pc, the documents it
\* was given, the index i of the document at hand, the list
\* documents_to_add and the name of the exception that ended it; log is
\* the history of what the call did to its collaborators.

Did(call, i) == [call |-> call, i |-> i]

Count(call) == Cardinality({k \in 1..Len(log) : log[k].call = call})

\* scraped documents as documents_as_dicts hands them over
Informatieobjecten ==
    {Map(<<>>), Map(<<KV("titel", a)>>),
     Map(<<KV("titel", b), KV("beschikbaarVanaf", Word("2024-01-01"))>>),
     Map(<<KV("beschikbaarVanaf", Word("x"))>>)}

ScrapedDocs ==
    {Map(<<KV("publisher_link", a), KV("document_link", l),
           KV("metadata", Map(<<KV("informatieobject", m)>>))>>) :
        l \in {b, Null}, m \in Informatieobjecten}
    \cup {Map(<<>>), Map(<<KV("document_link", Str(<<>>))>>)}

\* the longest list of documents one process call is given
MaxBatch == 2

\* what the parser finds in the downloaded file: text, nothing, or a file
\* it cannot read
Contents == {"text", "empty", "unreadable"}

\* what requests.get and raise_for_status end in
Responses == {"ok", "RequestException"}

\* _parse_metadata: title, published, author, or the error of strptime
_parse_metadata(metadata) ==
    LET published_raw == Get(metadata, "beschikbaarVanaf") IN
    IF HasKey(metadata, "beschikbaarVanaf") /\ published_raw # Word("2024-01-01")
    THEN Err(IF published_raw.k = "str" THEN "ValueError" ELSE "TypeError",
             "", published_raw)
    ELSE Map(<<KV("title", IF HasKey(metadata, "titel") THEN Lookup(metadata, "titel")
                            ELSE Word("Onbekend document")),
               KV("published", IF HasKey(metadata, "beschikbaarVanaf")
                               THEN Word("2024-01-01 00:00:00")
                               ELSE Word("today 00:00:00")),
               KV("author", IF HasKey(metadata, "organisatie")
                            THEN Get(Lookup(metadata, "organisatie"), "naam")
                            ELSE Word("Onbekend"))>>)

\* the metadata _process_single reads from a document
MetadataOf(doc) ==
    IF HasKey(doc, "metadata") /\ HasKey(Lookup(doc, "metadata"), "informatieobject")
    THEN Lookup(Lookup(doc, "metadata"), "informatieobject")
    ELSE Map(<<>>)

\* the body of the try of _process_single: None (Null), the processed
\* document, or the error raised
Processed(doc, content) ==
    LET meta == _parse_metadata(MetadataOf(doc)) IN
    CASE content = "unreadable" -> Err("ValueError", "", Null)
      [] content = "empty" -> Null
      [] IsErr(meta) -> meta
      [] OTHER ->
           Map(<<KV("content_text", List(<<a>>)),
                 KV("title", Lookup(meta, "title")),
                 KV("doc_identifier", md5(Lookup(meta, "title"))),
                 KV("created_at", Lookup(meta, "published")),
                 KV("publisher", Lookup(meta, "author")),
                 KV("publisher_link", Get(doc, "publisher_link")),
                 KV("informatieobject", MetadataOf(doc))>>)

\* a removal that only happens when the try returns
Removed_on_return(outcome) == ~IsErr(outcome)

\* the finally of _process_single: the file is removed whatever the try
\* ended in
Removed(outcome) == TRUE

ProcInit ==
    /\ config = [BaseModel |-> BaseConfig]
    /\ store = [i \in Ids |-> Null]
    /\ op = "none"
    /\ cls = "none"
    /\ self = Null
    /\ data = Null
    /\ result = Null
    /\ calls = [p \in Callers |-> Idle]
    /\ run = NoRun
    /\ log = <<>>
    /\ tmp = FALSE

\* process(documents) is called, for the first time or after it returned
process ==
    \E documents \in ListsOver(ScrapedDocs, MaxBatch) :
        /\ run.pc \in {"idle", "returned"}
        /\ run' = [pc |-> "process", op |-> "process", user_input |-> Null,
                   documents |-> documents, i |-> 1, documents_to_add |-> <<>>,
                   raised |-> "none"]
        /\ log' = <<>>
        /\ UNCHANGED <<codec, store, tmp>>

\* _process_single of a document without document_link: None
_process_single_without_link ==
    /\ run.pc = "process"
    /\ run.i <= Len(run.documents)
    /\ ~Truthy(Get(run.documents[run.i], "document_link"))
    /\ run' = [run EXCEPT !.i = @ + 1]
    /\ UNCHANGED <<codec, store, log, tmp>>

\* _download_file: the response is written to the file, or the request
\* fails and nothing is written
_download_file ==
    \E response \in Responses :
        /\ run.pc = "process"
        /\ run.i <= Len(run.documents)
        /\ Truthy(Get(run.documents[run.i], "document_link"))
        /\ log' = Append(log, Did("download", run.i))
        /\ IF response = "ok"
           THEN /\ tmp' = TRUE
                /\ run' = [run EXCEPT !.pc = "try"]
           ELSE /\ tmp' = tmp
                /\ run' = [run EXCEPT !.pc = "raised", !.raised = response]
        /\ UNCHANGED <<codec, store>>

\* the try and the finally of _process_single, and the append of process
_process_single_try ==
    \E content \in Contents :
        LET processed == Processed(run.documents[run.i], content) IN
        /\ run.pc = "try"
        /\ tmp' = (tmp /\ ~Removed(processed))
        /\ log' = IF Removed(processed) THEN Append(log, Did("remove", run.i))
                  ELSE log
        /\ run' = IF IsErr(processed)
                  THEN [run EXCEPT !.pc = "raised", !.raised = processed.type]
                  ELSE [run EXCEPT !.pc = "process", !.i = @ + 1,
                                   !.documents_to_add =
                                       IF Truthy(processed) THEN Append(@, processed)
                                       ELSE @]
        /\ UNCHANGED <<codec, store>>

\* process returns documents_to_add
process_return ==
    /\ run.pc = "process"
    /\ run.op = "process"
    /\ run.i > Len(run.documents)
    /\ run' = [run EXCEPT !.pc = "returned"]
    /\ UNCHANGED <<codec, store, log, tmp>>

ProcNext ==
    \/ process
    \/ _process_single_without_link
    \/ _download_file
    \/ _process_single_try
    \/ process_return

ProcSpec == ProcInit /\ [][ProcNext]_vars

\* C29: temporary file cleanup.  The temporary file exists only between a
\* successful download and the end of the try of _process_single: whether
\* the try returns None, returns a processed document or raises, the file
\* is removed; every download and every removal is for a document with a
\* document_link, each successful download is followed by one removal,
\* and when process has returned no temporary file remains.
C29_TemporaryFileRemoved ==
    /\ tmp => run.pc = "try"
    /\ \A k \in 1..Len(log) :
           log[k].call \in {"download", "remove"} =>
               Truthy(Get(run.documents[log[k].i], "document_link"))
    /\ run.pc \in {"process", "returned"} => Count("remove") = Count("download")
    /\ run.pc = "raised" =>
           Count("remove") = Count("download") - (IF run.raised = "RequestException"
                                                  THEN 1 ELSE 0)
    /\ run.pc = "returned" => ~tmp

\* C29 witness: process has returned after a document without link, for
\* which nothing was downloaded or removed, and a document whose download
\* succeeded and whose file was removed.
C29_Witness ==
    /\ run.pc = "returned"
    /\ Len(run.documents) = 2
    /\ ~Truthy(Get(run.documents[1], "document_link"))
    /\ log = <<Did("download", 2), Did("remove", 2)>>
    /\ Len(run.documents_to_add) = 1
    /\ ~tmp

\* ------------------------------------------------ Timeline.generate
\* services/timeline.py 65-98 with what it calls: the scraper, the
\* processor (the steps above), _build_timeline and the repository.

\* what _get_search_input returns: the terms typed, stripped, the empty
\* ones left out
UserInputs ==
    {Map(<<KV("search_terms", List(ts)),
           KV("document_type", List(<<Word("Alle parlementaire documenten")>>))>>) :
        ts \in {<<>>, <<a>>, <<b, a>>}}

\* the identifiers generate and the menu of summarize can select
ServiceIds == {md5(a), md5(b), a, b}

\* a gate that lets every list through
NoDocuments_never(documents_to_add) == FALSE

\* "if not documents_to_add"
NoDocuments(documents_to_add) == ~Truthy(List(documents_to_add))

\* sorted(..., key=created_at or datetime.min) over the dates the
\* processor writes: a stable sort, the fixed day before today; Null
\* stands for datetime.min, which cannot be compared with a str
Rank(doc) ==
    CASE doc.f.created_at = Null -> 0
      [] doc.f.created_at = Word("2024-01-01 00:00:00") -> 1
      [] OTHER -> 2

RECURSIVE sorted(_)
sorted(docs) ==
    IF Len(docs) <= 1 THEN docs
    ELSE Bound(sorted(Tail(docs)), LAMBDA rest :
             LET before == SelectSeq(rest, LAMBDA d : Rank(d) < Rank(Head(docs)))
                 after == SelectSeq(rest, LAMBDA d : Rank(d) >= Rank(Head(docs)))
             IN  before \o <<Head(docs)>> \o after)

\* a str and datetime.min in one list: "<" raises
Comparable(docs) ==
    \A i, j \in 1..Len(docs) : (Rank(docs[i]) = 0) = (Rank(docs[j]) = 0)

_build_timeline_documents(documents) ==
    Bound([i \in 1..Len(documents) |-> _map_processed_document(documents[i])] \o <<>>,
          LAMBDA mapped :
    Bound([i \in 1..Len(mapped) |->
              IF IsErr(mapped[i]) THEN mapped[i] ELSE _normalize_document(mapped[i])]
          \o <<>>,
          LAMBDA documents_as_models :
        IF HasErr(mapped) THEN FirstErr(mapped)
        ELSE IF HasErr(documents_as_models) THEN FirstErr(documents_as_models)
        ELSE IF ~Comparable(documents_as_models) THEN Err("TypeError", "", Null)
        ELSE List(sorted(documents_as_models))))

_build_timeline(timeline_name, timeline_id, documents) ==
    Bound(_build_timeline_documents(documents), LAMBDA timeline_documents :
        IF IsErr(timeline_documents) THEN timeline_documents
        ELSE _normalize_timeline(
                 Rec("Timeline",
                     [identifier |-> timeline_id, name |-> timeline_name,
                      documents |-> timeline_documents, beschrijving |-> Null,
                      gegenereerd_op |-> Null])))

\* what opensearch.index ends in
IndexOutcomes == {"ok", "ConnectionError"}

GenInit ==
    /\ config = [BaseModel |-> BaseConfig]
    /\ store = [i \in ServiceIds |-> Null]
    /\ op = "none"
    /\ cls = "none"
    /\ self = Null
    /\ data = Null
    /\ result = Null
    /\ calls = [p \in Callers |-> Idle]
    /\ run = NoRun
    /\ log = <<>>
    /\ tmp = FALSE

\* generate is called, once, and reads the user's input
generate ==
    \E user_input \in UserInputs :
        /\ run.pc = "idle"
        /\ run' = [pc |-> "fetch", op |-> "generate", user_input |-> user_input,
                   documents |-> <<>>, i |-> 1, documents_to_add |-> <<>>,
                   raised |-> "none"]
        /\ log' = <<>>
        /\ UNCHANGED <<codec, store, tmp>>

\* scraper.fetch_documents: nothing without terms; else what the searches
\* found, or the error of a search
fetch_documents ==
    /\ run.pc = "fetch"
    /\ log' = Append(log, Did("fetch", 0))
    /\ IF ~Truthy(Lookup(run.user_input, "search_terms"))
       THEN run' = [run EXCEPT !.pc = "process", !.documents = <<>>]
       ELSE \/ \E results \in ListsOver(ScrapedDocs, MaxBatch) :
                   run' = [run EXCEPT !.pc = "process", !.documents = results]
            \/ run' = [run EXCEPT !.pc = "raised", !.raised = "DocumentsNotFound"]
    /\ UNCHANGED <<codec, store, tmp>>

\* "if not documents_to_add: raise DocumentsNotFound"
generate_nothing_processed ==
    /\ run.pc = "process"
    /\ run.op = "generate"
    /\ run.i > Len(run.documents)
    /\ NoDocuments(run.documents_to_add)
    /\ run' = [run EXCEPT !.pc = "raised", !.raised = "DocumentsNotFound"]
    /\ UNCHANGED <<codec, store, log, tmp>>

\* the timeline is built and handed to repo.upsert, which indexes its
\* to_dict under its identifier; generate returns
generate_upsert ==
    /\ run.pc = "process"
    /\ run.op = "generate"
    /\ run.i > Len(run.documents)
    /\ ~NoDocuments(run.documents_to_add)
    /\ \E outcome \in IndexOutcomes,
          timeline_name \in {IF Truthy(Lookup(run.user_input, "search_terms"))
                             THEN Lookup(run.user_input, "search_terms").v[1]
                             ELSE Word("Onbekend")} :
        \E timeline \in {_build_timeline(timeline_name, md5(timeline_name),
                                          run.documents_to_add)} :
            /\ IF IsErr(timeline)
               THEN /\ run' = [run EXCEPT !.pc = "raised", !.raised = timeline.type]
                    /\ UNCHANGED <<log, store>>
               ELSE /\ log' = Append(log, Did("upsert", Len(timeline.f.documents.v)))
                    /\ IF outcome = "ok"
                       THEN /\ store' = [store EXCEPT ![timeline.f.identifier] =
                                                          to_dict(timeline)]
                            /\ run' = [run EXCEPT !.pc = "returned"]
                       ELSE /\ store' = store
                            /\ run' = [run EXCEPT !.pc = "raised", !.raised = outcome]
            /\ UNCHANGED <<codec, tmp>>

GenNext ==
    \/ generate
    \/ fetch_documents
    \/ _process_single_without_link
    \/ _download_file
    \/ _process_single_try
    \/ generate_nothing_processed
    \/ generate_upsert

GenSpec == GenInit /\ [][GenNext]_vars

\* C26: write gating of generate.  In one call of generate the
\* repository is written at most once, as the last thing the call does,
\* after the documents were fetched and every one of them was processed,
\* and with at least one processed document; a call that ends with
\* nothing processed raises DocumentsNotFound and has written nothing;
\* the stored timelines change in no other step.
C26_UpsertGated ==
    /\ [](/\ Count("upsert") <= 1
          /\ \A k \in 1..Len(log) :
                 log[k].call = "upsert" =>
                     /\ k = Len(log)
                     /\ log[1].call = "fetch"
                     /\ run.i > Len(run.documents)
                     /\ Len(run.documents_to_add) >= 1
                     /\ log[k].i >= 1
          /\ (run.pc \in {"returned", "raised"} /\ run.i > Len(run.documents)
              /\ run.documents_to_add = <<>> /\ run.raised # "RequestException") =>
                 /\ run.raised = "DocumentsNotFound"
                 /\ Count("upsert") = 0
          /\ run.pc = "returned" => Count("upsert") = 1)
    /\ [][store' # store => /\ Count("upsert") = 0
                            /\ log' = Append(log, Did("upsert",
                                                      Len(run.documents_to_add)))
                            /\ run'.pc = "returned"]_vars

\* C26 witness: generate has returned after two documents were fetched,
\* one of them processed, and one timeline with that document upserted.
C26_Witness ==
    /\ run.pc = "returned"
    /\ run.op = "generate"
    /\ Len(run.documents) = 2
    /\ Len(run.documents_to_add) = 1
    /\ Count("upsert") = 1
    /\ store[md5(a)] # Null
    /\ Len(Lookup(store[md5(a)], "documents").v) = 1

\* ------------------------------------------------ CL_Mistral_Completions
\* services/cl_mistral_completions.py.  run holds the prompts still to be
\* answered (the first is the one at hand), whether a combined prompt
\* follows them, the summaries returned so far and the number n of the
\* prompt at hand; log holds one entry per call of client.chat.complete.

Called(n, outcome) == [call |-> "complete", i |-> n, outcome |-> outcome]

\* the most chunks of a document handed to generate_doc_summary
MaxChunks == 3

\* what client.chat.complete ends in: a response, the SDK's error, or
\* another error (of the transport)
CompleteOutcomes == {"ok", "SDKError", "ConnectionError"}

\* the f-strings of generate_doc_summary
DocumentPrompt(chunk) == Str(<<Lit("Document: ")>> \o Lookup(chunk, "content").s)
ChunkPrompt(chunk) == Str(<<Lit("Tekst:")>> \o Lookup(chunk, "content").s)
RECURSIVE Joined(_)
Joined(chunk_summaries) ==
    IF chunk_summaries = <<>> THEN <<>>
    ELSE Head(chunk_summaries).s \o Joined(Tail(chunk_summaries))
CombinedPrompt(chunk_summaries) == Str(<<Lit("Bulletpoints: ")>> \o Joined(chunk_summaries))

\* response.choices[0].message.content of the response to a prompt
Completion(prompt) == Str(<<Lit("re: ")>> \o prompt.s)

\* a handler that retries after any error
Retried_any(outcome) == outcome # "ok"

\* "except SDKError": the errors after which the call is made again
Retried(outcome) == outcome = "SDKError"

\* what callers hand to _generate_completion directly
Prompts == {a, Null, PyInt(5), List(<<a>>)}

\* the documents (document.to_dict()) handed to generate_doc_summary
ChunkDicts == {Map(<<KV("chunk_identifier", a), KV("content", t)>>) : t \in {a, b}}

SummaryDocs ==
    {Map(<<KV("id", a), KV("content_text", List(cs))>>) :
        cs \in ListsOver(ChunkDicts, MaxChunks)}

ComplInit ==
    /\ config = [BaseModel |-> BaseConfig]
    /\ store = [i \in Ids |-> Null]
    /\ op = "none"
    /\ cls = "none"
    /\ self = Null
    /\ data = Null
    /\ result = Null
    /\ calls = [p \in Callers |-> Idle]
    /\ run = NoRun
    /\ log = <<>>
    /\ tmp = FALSE

\* _generate_completion(prompt) is called by itself: the type check
_generate_completion ==
    \E prompt \in Prompts :
        /\ run.pc = "idle"
        /\ run' = [pc |-> IF prompt.k = "str" THEN "complete" ELSE "raised",
                   op |-> "_generate_completion",
                   prompts |-> <<prompt>>, combine |-> FALSE, n |-> 1,
                   summaries |-> <<>>,
                   raised |-> IF prompt.k = "str" THEN "none" ELSE "TypeError"]
        /\ UNCHANGED <<codec, store, log, tmp>>

\* generate_doc_summary(doc, title): one prompt for a document of one
\* chunk, else one per chunk and a combined one after them
generate_doc_summary ==
    \E doc \in SummaryDocs :
        LET chunks == Lookup(doc, "content_text").v IN
        /\ run.pc = "idle"
        /\ run' = [pc |-> "complete", op |-> "generate_doc_summary",
                   prompts |-> IF Len(chunks) = 1 THEN <<DocumentPrompt(chunks[1])>>
                               ELSE IF Len(chunks) = 0 THEN <<CombinedPrompt(<<>>)>>
                               ELSE [i \in 1..Len(chunks) |-> ChunkPrompt(chunks[i])],
                   combine |-> Len(chunks) > 1, n |-> 1, summaries |-> <<>>,
                   raised |-> "none"]
        /\ UNCHANGED <<codec, store, log, tmp>>

\* the run after the prompt at hand was answered: the next prompt, the
\* combined prompt, or the return
Answered(r) ==
    LET summaries == Append(r.summaries, Completion(r.prompts[1])) IN
    IF Len(r.prompts) > 1
    THEN [r EXCEPT !.pc = "complete", !.prompts = Tail(@), !.n = @ + 1,
                   !.summaries = summaries]
    ELSE IF r.combine
    THEN [r EXCEPT !.pc = "complete", !.prompts = <<CombinedPrompt(summaries)>>,
                   !.n = @ + 1, !.summaries = <<>>, !.combine = FALSE]
    ELSE [r EXCEPT !.pc = "returned", !.prompts = <<>>, !.summaries = summaries]

\* the try of _generate_completion: the first call for the prompt
complete ==
    \E outcome \in CompleteOutcomes :
        /\ run.pc = "complete"
        /\ log' = Append(log, Called(run.n, outcome))
        /\ run' = CASE outcome = "ok" -> Answered(run)
                    [] Retried(outcome) -> [run EXCEPT !.pc = "except"]
                    [] OTHER -> [run EXCEPT !.pc = "raised", !.raised = outcome]
        /\ UNCHANGED <<codec, store, tmp>>

\* the except of _generate_completion: after the sleep the call is made
\* once more, outside any try
complete_again ==
    \E outcome \in CompleteOutcomes :
        /\ run.pc = "except"
        /\ log' = Append(log, Called(run.n, outcome))
        /\ run' = IF outcome = "ok" THEN Answered(run)
                  ELSE [run EXCEPT !.pc = "raised", !.raised = outcome]
        /\ UNCHANGED <<codec, store, tmp>>

ComplNext ==
    \/ _generate_completion
    \/ generate_doc_summary
    \/ complete
    \/ complete_again

ComplSpec == ComplInit /\ [][ComplNext]_vars

\* the calls made for prompt number n, in order
CallsFor(n) == SelectSeq(log, LAMBDA e : e.i = n)

\* C28: completion retry bound.  For every prompt at most two calls of
\* the API are made; a second call is made only after the first raised
\* SDKError; when the second call fails too, its error has reached the
\* caller and nothing was called after it; a prompt that is not a string
\* raised TypeError and no call was made for it.
C28_AtMostOneRetry ==
    run.pc # "idle" =>
        /\ \A n \in 1..run.n :
               /\ Len(CallsFor(n)) <= 2
               /\ Len(CallsFor(n)) = 2 =>
                      /\ CallsFor(n)[1].outcome = "SDKError"
                      /\ CallsFor(n)[2].outcome # "ok" =>
                             /\ run.pc = "raised"
                             /\ run.raised = CallsFor(n)[2].outcome
                             /\ log[Len(log)] = CallsFor(n)[2]
               /\ (Len(CallsFor(n)) = 1 /\ CallsFor(n)[1].outcome = "SDKError") =>
                      run.pc = "except"
        /\ \A k \in 1..Len(log) : log[k].i <= run.n
        /\ (run.op = "_generate_completion" /\ run.prompts # <<>>
            /\ run.prompts[1].k # "str") =>
               /\ run.pc = "raised"
               /\ run.raised = "TypeError"
               /\ log = <<>>
        /\ run.pc = "except" => log[Len(log)] = Called(run.n, "SDKError")

\* C28 witness: the first call for the second prompt of a summary raised
\* SDKError, the second call failed as well, and that error has ended the
\* summary after three calls.
C28_Witness ==
    /\ run.pc = "raised"
    /\ run.op = "generate_doc_summary"
    /\ run.raised = "SDKError"
    /\ log = <<Called(1, "ok"), Called(2, "SDKError"), Called(2, "SDKError")>>

\* ------------------------------------------------ DocumentRepository.search
\* repositories/scraper_repository.py 239-298.  run holds the arguments,
\* total_pages as detected on the first page, the pages still to visit,
\* documents and page_document_ids as built so far, and the result; log
\* holds one entry per page whose ids were fetched.

\* the most pages a search reports
MaxPages == 3

\* the most documents listed on one page
MaxPageDocs == 1

\* min of two ints
Min2(x, y) == IF x <= y THEN x ELSE y

\* range(1, last_page + 1) as a sequence
Range1(last_page) == [i \in 1..last_page |-> i]

\* an iteration that ignores max_pages
_iterate_pages_all(total_pages, max_pages) == Range1(total_pages)

_iterate_pages(total_pages, max_pages) ==
    Range1(IF max_pages # 0 THEN Min2(total_pages, max_pages) ELSE total_pages)

\* _build_document: the RawDocument of a document id
_build_document(document_id) ==
    Rec("RawDocument",
        [publisher_link |-> Str(<<Lit("display/")>> \o document_id.s),
         document_link |-> Str(<<Lit("display/")>> \o document_id.s \o <<Lit(".pdf")>>),
         metadata |-> Map(<<KV("informatieobject", Map(<<>>))>>)])

_collect_documents(document_ids) ==
    [i \in 1..Len(document_ids) |-> _build_document(document_ids[i])]

\* what fetching a page, or the metadata of its documents, ends in
PageOutcomes == {"ok", "RequestException", "DocumentsNotFound"}

PageInit ==
    /\ config = [BaseModel |-> BaseConfig]
    /\ store = [i \in Ids |-> Null]
    /\ op = "none"
    /\ cls = "none"
    /\ self = Null
    /\ data = Null
    /\ result = Null
    /\ calls = [p \in Callers |-> Idle]
    /\ run = NoRun
    /\ log = <<>>
    /\ tmp = FALSE

\* search(query, max_pages) is called: the first page is fetched and
\* total_pages read from it, or the fetch fails
search ==
    \E max_pages \in (-1)..(MaxPages + 1), total_pages \in 0..MaxPages,
       outcome \in {"ok", "RequestException"} :
        /\ run.pc \in {"idle", "returned", "raised"}
        /\ run' = [pc |-> IF outcome = "ok" THEN "pages" ELSE "raised",
                   op |-> "search", query |-> Query, max_pages |-> max_pages,
                   total_pages |-> IF outcome = "ok" THEN total_pages ELSE 0,
                   pages |-> IF outcome = "ok"
                             THEN _iterate_pages(total_pages, max_pages) ELSE <<>>,
                   documents |-> <<>>, page_document_ids |-> <<>>,
                   result |-> Null,
                   raised |-> IF outcome = "ok" THEN "none" ELSE outcome]
        /\ log' = <<>>
        /\ UNCHANGED <<codec, store, tmp>>

\* one round of the loop: the ids of the page are fetched and entered
\* under the page number, and their documents appended
search_page ==
    \E doc_ids \in ListsOver({a, b}, MaxPageDocs), outcome \in PageOutcomes :
        /\ run.pc = "pages"
        /\ run.pages # <<>>
        /\ log' = Append(log, Did("page", run.pages[1]))
        /\ run' = CASE outcome = "RequestException" ->
                         [run EXCEPT !.pc = "raised", !.raised = outcome]
                    [] outcome = "DocumentsNotFound" /\ doc_ids # <<>> ->
                         [run EXCEPT !.pc = "raised", !.raised = outcome,
                                     !.page_document_ids =
                                         Append(@, IntKV(run.pages[1], List(doc_ids)))]
                    [] OTHER ->
                         [run EXCEPT !.pages = Tail(@),
                                     !.page_document_ids =
                                         Append(@, IntKV(run.pages[1], List(doc_ids))),
                                     !.documents = @ \o _collect_documents(doc_ids)]
        /\ UNCHANGED <<codec, store, tmp>>

\* the loop is over: the DocumentSearchResult is returned
search_return ==
    /\ run.pc = "pages"
    /\ run.pages = <<>>
    /\ run' = [run EXCEPT !.pc = "returned",
                          !.result =
                              Rec("DocumentSearchResult",
                                  [query |-> run.query,
                                   documents |-> List(run.documents),
                                   total_pages |-> PyInt(run.total_pages),
                                   page_document_ids |-> Map(run.page_document_ids)])]
    /\ UNCHANGED <<codec, store, log, tmp>>

PageNext == search \/ search_page \/ search_return

PageSpec == PageInit /\ [][PageNext]_vars

\* the documents of the pages entered in page_document_ids, page after page
RECURSIVE DocumentsOfPages(_)
DocumentsOfPages(entries) ==
    IF entries = <<>> THEN <<>>
    ELSE _collect_documents(Head(entries).val.v) \o DocumentsOfPages(Tail(entries))

\* the last page the claim names
LastPage ==
    IF run.max_pages = 0 THEN run.total_pages
    ELSE Min2(run.total_pages, run.max_pages)

\* C30: pagination bound.  During a search the pages whose ids were
\* fetched are 1, 2, 3, ... in this order, each once, and none beyond
\* min(total_pages, max_pages), or beyond total_pages when max_pages is
\* 0; when the search returns, the keys of page_document_ids are exactly
\* the pages 1..that last page in ascending order, and documents is the
\* concatenation of the documents of these pages in page order.
C30_PagesVisitedOnceInOrder ==
    run.pc # "idle" =>
        /\ \A k \in 1..Len(log) : log[k] = Did("page", k)
        /\ Len(log) <= (IF LastPage < 0 THEN 0 ELSE LastPage)
        /\ run.pc = "returned" =>
               /\ Len(log) = (IF LastPage < 0 THEN 0 ELSE LastPage)
               /\ run.result.f.page_document_ids.kv \in
                      [1..Len(log) -> [key : IntKeys, val : {List(ids) :
                                         ids \in ListsOver({a, b}, MaxPageDocs)}]]
               /\ \A k \in 1..Len(log) :
                      run.result.f.page_document_ids.kv[k].key = IntKey(k)
               /\ run.result.f.documents.v =
                      DocumentsOfPages(run.result.f.page_document_ids.kv)
               /\ run.result.f.total_pages = PyInt(run.total_pages)

\* C30 witness: a search with three pages of results and max_pages 2 has
\* returned the ids of pages 1 and 2 and their two documents, in order.
C30_Witness ==
    /\ run.pc = "returned"
    /\ run.op = "search"
    /\ run.total_pages = 3
    /\ run.max_pages = 2
    /\ log = <<Did("page", 1), Did("page", 2)>>
    /\ run.result.f.page_document_ids =
           Map(<<IntKV(1, List(<<a>>)), IntKV(2, List(<<b>>))>>)
    /\ run.result.f.documents.v = <<_build_document(a), _build_document(b)>>

\* ------------------------------------------------ Timeline.summarize
\* services/timeline.py 100-120 with what it calls: the menus, the
\* repository, _normalize_timeline, the completions client.  run holds
\* the arguments, the identifier selected, the timeline at hand, and the
\* indices todo of the documents whose summary is still to be generated;
\* log holds the calls on the repository and on the client.

\* a document of a stored timeline, as generate writes it: the to_dict of
\* the TimelineDocument built from a processed document
StoredDoc(title, informatieobject) ==
    Map(<<KV("id", md5(title)), KV("title", title),
          KV("created_at", Word("today 00:00:00")),
          KV("publisher", Word("Onbekend")), KV("summary", Null),
          KV("publisher_link", a),
          KV("content_text",
             List(<<Map(<<KV("chunk_identifier", md5(a)), KV("content", a)>>)>>)),
          KV("informatieobject", informatieobject)>>)

StoredTimeline(docs) ==
    Map(<<KV("identifier", md5(a)), KV("name", a), KV("documents", List(docs)),
          KV("beschrijving", Null), KV("gegenereerd_op", Null)>>)

\* the sources generate has written under md5(a), and one timeline
\* without documents
StoredTimelines ==
    {StoredTimeline(docs) :
        docs \in {<<>>,
                  <<StoredDoc(Word("Onbekend document"), Map(<<>>))>>,
                  <<StoredDoc(a, Map(<<KV("titel", a)>>))>>,
                  <<StoredDoc(Word("Onbekend document"), Map(<<>>)),
                    StoredDoc(a, Map(<<KV("titel", a)>>))>>}}

\* the order in which opensearch.search lists the index
ServiceIdOrder == <<md5(a), md5(b), a, b>>

\* find_all: the stored sources, decoded
find_all ==
    Bound(SelectSeq(ServiceIdOrder, LAMBDA i : Truthy(store[i])), LAMBDA held :
        [k \in 1..Len(held) |-> _source_to_doc(store[held[k]])] \o <<>>)

\* Timeline.doc_by_id as an index: 0 for None
doc_by_id(timeline, doc_id) ==
    LET docs == timeline.f.documents.v
        hits == {k \in 1..Len(docs) : docs[k].f.id = doc_id}
    IN  IF hits = {} THEN 0 ELSE CHOOSE k \in hits : \A j \in hits : k <= j

\* datetime.now()
Now == DT(2024, 2, 1, 0, 0, 0, "naive")

\* what generate_doc_summary and generate_description end in: a text, an
\* empty text, or the error of the client
SummaryOutcomes == {"ok", "empty", "SDKError"}

SummaryText(outcome) == IF outcome = "ok" THEN Word("s") ELSE Str(<<>>)

\* a check that takes every answer of repo.get for a timeline
Found_always(timeline) == TRUE

\* "if timeline is None: raise TimelineNotFound"
Found(timeline) == timeline # Null

SumInit ==
    /\ config = [BaseModel |-> BaseConfig]
    /\ \E t \in StoredTimelines \cup {Null} :
           store = [i \in ServiceIds |-> IF i = md5(a) THEN t ELSE Null]
    /\ op = "none"
    /\ cls = "none"
    /\ self = Null
    /\ data = Null
    /\ result = Null
    /\ calls = [p \in Callers |-> Idle]
    /\ run = NoRun
    /\ log = <<>>
    /\ tmp = FALSE

\* summarize(tijdlijn_id, doc_id) is called, once: the identifier given,
\* or the one chosen from the menu of _get_summary_input, which lists
\* repo.find_all(); without a selection the call returns
summarize ==
    \E tijdlijn_id \in {Null, md5(a), md5(b)}, doc_id \in {Null, md5(a), b},
       searched \in IndexOutcomes, choice \in 0..Len(ServiceIdOrder),
       all_timelines \in {find_all} :
        LET chosen == IF choice \in 1..Len(all_timelines)
                      THEN all_timelines[choice].f.identifier ELSE Null
            selected == IF Truthy(tijdlijn_id) THEN tijdlijn_id ELSE chosen
            failed == ~Truthy(tijdlijn_id) /\ searched # "ok"
        IN  /\ run.pc = "idle"
            /\ log' = IF Truthy(tijdlijn_id) THEN <<>> ELSE <<Did("find_all", 0)>>
            /\ run' = [pc |-> CASE failed -> "raised"
                                [] Truthy(selected) -> "get"
                                [] OTHER -> "returned",
                       op |-> "summarize", tijdlijn_id |-> tijdlijn_id,
                       doc_id |-> doc_id,
                       selected |-> IF failed THEN Null ELSE selected,
                       got |-> Null, timeline |-> Null, todo |-> <<>>,
                       raised |-> IF failed THEN searched ELSE "none"]
            /\ UNCHANGED <<codec, store, tmp>>

\* repo.get, the check of its answer, _normalize_timeline, and the
\* document given or chosen from the menu of _get_single_doc_input; a
\* document that is not in the timeline leaves nothing to generate
summarize_get ==
    /\ run.pc = "get"
    /\ \E fails \in BOOLEAN, choice \in 0..MaxBatch :
      \E source \in {IF fails THEN Null ELSE store[run.selected]} :
      \E got \in {IF Truthy(source) THEN _source_to_doc(source) ELSE Null} :
      \E timeline \in {IF IsErr(got) THEN got ELSE _normalize_timeline(got)} :
        LET docs == timeline.f.documents.v
            chosen == IF choice \in 1..Len(docs) THEN docs[choice].f.id ELSE Null
            target_doc_id == Or(run.doc_id, chosen)
        IN  /\ log' = Append(log, Did("get", 0))
            /\ run' =
                 CASE ~Found(got) ->
                        [run EXCEPT !.pc = "raised", !.raised = "TimelineNotFound"]
                   [] IsErr(timeline) ->
                        [run EXCEPT !.pc = "raised", !.raised = timeline.type,
                                    !.got = got]
                   [] Truthy(target_doc_id) /\ doc_by_id(timeline, target_doc_id) = 0 ->
                        [run EXCEPT !.pc = "update", !.got = got,
                                    !.timeline = timeline]
                   [] Truthy(target_doc_id) ->
                        [run EXCEPT !.pc = "summaries", !.got = got,
                                    !.timeline = timeline,
                                    !.todo = <<doc_by_id(timeline, target_doc_id)>>]
                   [] OTHER ->
                        [run EXCEPT !.pc = "summaries", !.got = got,
                                    !.timeline = timeline,
                                    !.todo = [k \in 1..Len(docs) |-> k]]
            /\ UNCHANGED <<codec, store, tmp>>

\* one generate_doc_summary: the summary is set, or the client's error
\* ends the call
summarize_document ==
    \E outcome \in SummaryOutcomes :
        /\ run.pc = "summaries"
        /\ run.todo # <<>>
        /\ log' = Append(log, Did("generate_doc_summary", run.todo[1]))
        /\ run' = IF outcome = "SDKError"
                  THEN [run EXCEPT !.pc = "raised", !.raised = outcome]
                  ELSE [run EXCEPT !.todo = Tail(@),
                                   !.timeline.f.documents.v[run.todo[1]].f.summary =
                                       SummaryText(outcome)]
        /\ UNCHANGED <<codec, store, tmp>>

\* gegenereerd_op is set and _refresh_timeline_description run: no
\* description without summaries, else one generate_description
summarize_refresh ==
    \E outcome \in SummaryOutcomes :
        LET docs == run.timeline.f.documents.v
            summaries == SelectSeq(docs, LAMBDA d : Truthy(d.f.summary))
        IN  /\ run.pc = "summaries"
            /\ run.todo = <<>>
            /\ log' = IF summaries = <<>> THEN log
                      ELSE Append(log, Did("generate_description", 0))
            /\ run' = CASE summaries = <<>> ->
                             [run EXCEPT !.pc = "update",
                                         !.timeline.f.gegenereerd_op = Now,
                                         !.timeline.f.beschrijving = Null]
                        [] outcome = "SDKError" ->
                             [run EXCEPT !.pc = "raised", !.raised = outcome,
                                         !.timeline.f.gegenereerd_op = Now]
                        [] OTHER ->
                             [run EXCEPT !.pc = "update",
                                         !.timeline.f.gegenereerd_op = Now,
                                         !.timeline.f.beschrijving = SummaryText(outcome)]
            /\ UNCHANGED <<codec, store, tmp>>

\* repo.update(updated_timeline), which is upsert; summarize returns
summarize_update ==
    \E outcome \in IndexOutcomes :
        /\ run.pc = "update"
        /\ log' = Append(log, Did("update", 0))
        /\ IF outcome = "ok"
           THEN /\ store' = index(run.timeline)
                /\ run' = [run EXCEPT !.pc = "returned"]
           ELSE /\ store' = store
                /\ run' = [run EXCEPT !.pc = "raised", !.raised = outcome]
        /\ UNCHANGED <<codec, tmp>>

SumNext ==
    \/ summarize
    \/ summarize_get
    \/ summarize_document
    \/ summarize_refresh
    \/ summarize_update

SumSpec == SumInit /\ [][SumNext]_vars

\* the call has ended without a selection
NothingSelected == run.pc = "returned" /\ ~Truthy(run.selected)

\* repo.get has answered with a timeline in this call
GotTimeline == Count("get") = 1 /\ run.got # Null

\* C27 as stated: write gating of summarize.  repo.update is called only
\* after repo.get returned a timeline in the same call; a call without a
\* selected identifier has read and written nothing; a call whose
\* timeline is not found raised TimelineNotFound and has written
\* nothing; every other call has made exactly one repo.update, after the
\* last summary was generated.
C27_NothingReadWithoutSelection ==
    /\ Count("update") >= 1 => GotTimeline
    /\ NothingSelected => log = <<>>
    /\ run.pc = "raised" /\ run.raised = "TimelineNotFound" => Count("update") = 0
    /\ (run.pc \in {"returned", "raised"} /\ GotTimeline) =>
           /\ Count("update") = 1
           /\ log[Len(log)].call = "update"

\* C27: write gating of summarize.  repo.update is called at most once,
\* as the last call of summarize, only after repo.get returned a timeline
\* in the same call and after every summary and the description were
\* generated; a call without a selected identifier has called neither
\* repo.get nor repo.update, and has read the list of timelines
\* (repo.find_all) exactly when no identifier was passed; when repo.get
\* returns nothing TimelineNotFound is raised and nothing is written; a
\* call that returns with a timeline has made exactly one repo.update,
\* also when the requested document is not in the timeline, in which
\* case no summary was generated; a call ended by an error of
\* normalization or of the client has made no repo.update; the index
\* changes only in the step of repo.update.
C27_UpdateGated ==
    /\ [](run.pc # "idle" =>
          /\ Count("update") <= 1
          /\ \A k \in 1..Len(log) :
                 log[k].call = "update" =>
                     /\ k = Len(log)
                     /\ GotTimeline
                     /\ run.todo = <<>>
                     /\ run.pc \in {"returned", "raised"}
          /\ NothingSelected =>
                 /\ Count("get") = 0 /\ Count("update") = 0
                 /\ log = IF Truthy(run.tijdlijn_id) THEN <<>>
                          ELSE <<Did("find_all", 0)>>
          /\ (Count("get") = 1 /\ run.got = Null) =>
                 /\ run.pc = "raised"
                 /\ run.raised = "TimelineNotFound"
                 /\ Count("update") = 0
          /\ (run.pc = "returned" /\ Truthy(run.selected)) =>
                 /\ GotTimeline
                 /\ Count("update") = 1
                 /\ (Truthy(run.doc_id) /\ doc_by_id(run.timeline, run.doc_id) = 0) =>
                        Count("generate_doc_summary") = 0
          /\ (run.pc = "raised" /\ run.raised \in {"SDKError", "TypeError"}) =>
                 Count("update") = 0)
    /\ [][store' # store => /\ run.pc = "update"
                            /\ run'.pc = "returned"
                            /\ log' = Append(log, Did("update", 0))
                            /\ store' = index(run.timeline)]_vars

\* C27 witness: summarize was asked for a document that the stored
\* timeline does not hold; it has returned after repo.get and one
\* repo.update, without generating a summary.
C27_Witness ==
    /\ run.pc = "returned"
    /\ run.op = "summarize"
    /\ run.doc_id = b
    /\ log = <<Did("get", 0), Did("update", 0)>>
    /\ Len(run.timeline.f.documents.v) = 2
    /\ store[md5(a)] # Null

====
